---- MODULE Spec2Model ----
(***************************************************************************)
(* Catcity Music Asset Manager: the catalog, the reconciliation engine     *)
(* (scan_and_sync), the virtual key generators, the cluster manager        *)
(* (merge / split), the track API and the atomic catalog store.            *)
(*                                                                         *)
(* Strings are TLA+ strings; a character is a string of length 1, taken    *)
(* with SubSeq.  UUIDs are natural numbers drawn from a counter that never *)
(* hands out the same number twice.                                        *)
(***************************************************************************)
EXTENDS Integers, Sequences, FiniteSets, TLC

\* no scan_and_sync call is in progress
NO_SCAN == [pc |-> "idle"]

\* None, for the Optional[UUID] / Optional[int] / Optional[float] fields
NULL == -1

\* a request id that UUID(...) cannot parse
BAD_ID == -2

\* a well-formed UUID that names nothing in the catalog (uuid4 never returns it)
UNKNOWN_ID == 0

\* ------------------------------------------------------------------------
\* Python str helpers
\* ------------------------------------------------------------------------

UPPERCASE == "ABCDEFGHIJKLMNOPQRSTUVWXYZ"
LOWERCASE == "abcdefghijklmnopqrstuvwxyz"
DECIMALS == "0123456789"

\* A character for which str.isdigit() is true and int() raises ValueError
\* (SUPERSCRIPT TWO, U+00B2).  Taken as the last character of the literal so
\* that it is one character whatever encoding the module is read in.
SUPERSCRIPT_TWO == SubSeq("²", Len("²"), Len("²"))

CharAt(s, i) == SubSeq(s, i, i)

\* the characters of a string, as a set
Chars(s) == {CharAt(s, i) : i \in 1..Len(s)}

DIGIT_CHARS == Chars(DECIMALS)

\* c is one of the characters of the class `alphabet`
CharIn(c, alphabet) == c \in alphabet

IndexIn(c, alphabet) == CHOOSE i \in 1..Len(alphabet) : CharAt(alphabet, i) = c

\* str.lower(), one character: the lower-case letter of every upper-case one
LOWER_OF ==
    [c \in Chars(UPPERCASE) |->
        CharAt(LOWERCASE, IndexIn(c, UPPERCASE))]

LowerChar(c) == IF c \in DOMAIN LOWER_OF THEN LOWER_OF[c] ELSE c

RECURSIVE Lower(_)
Lower(s) == IF s = "" THEN "" ELSE LowerChar(Head(s)) \o Lower(Tail(s))

IsSpace(c) == c = " "

RECURSIVE LStripSet(_, _)
LStripSet(s, alphabet) ==
    IF s # "" /\ CharIn(Head(s), alphabet) THEN LStripSet(Tail(s), alphabet) ELSE s

RECURSIVE RStripSet(_, _)
RStripSet(s, alphabet) ==
    IF s # "" /\ CharIn(CharAt(s, Len(s)), alphabet)
    THEN RStripSet(SubSeq(s, 1, Len(s) - 1), alphabet)
    ELSE s

\* str.strip(chars)
StripSet(s, alphabet) == RStripSet(LStripSet(s, alphabet), alphabet)

\* str.strip()
Strip(s) == StripSet(s, {" "})

\* str.startswith
StartsWith(s, prefix) == Len(s) >= Len(prefix) /\ SubSeq(s, 1, Len(prefix)) = prefix

\* str.isdigit(): non-empty and every character is a digit character; the
\* superscript digit counts as one.
IsDigitChar(c) == CharIn(c, DIGIT_CHARS) \/ c = SUPERSCRIPT_TWO

isdigit(s) == s # "" /\ \A i \in 1..Len(s) : IsDigitChar(CharAt(s, i))

\* int(s) raises ValueError on a character that is no decimal digit
IntRaises(s) == s = "" \/ \E i \in 1..Len(s) : ~CharIn(CharAt(s, i), DIGIT_CHARS)

RECURSIVE IntOf(_)
IntOf(s) == IF s = "" THEN 0
            ELSE 10 * IntOf(SubSeq(s, 1, Len(s) - 1)) + (IndexIn(CharAt(s, Len(s)), DECIMALS) - 1)

RECURSIVE StrOfNat(_)
StrOfNat(n) == IF n < 10 THEN CharAt(DECIMALS, n + 1)
               ELSE StrOfNat(n \div 10) \o CharAt(DECIMALS, (n % 10) + 1)

\* f"{n:03d}"
Format03d(n) == LET s == StrOfNat(n) IN
                IF Len(s) >= 3 THEN s ELSE SubSeq("000", 1, 3 - Len(s)) \o s

\* re.sub(r"[^<keep>]+", rep, s): every maximal run of characters outside
\* `keep` becomes one rep.
RECURSIVE SubRuns(_, _, _, _)
SubRuns(s, keep, rep, inRun) ==
    IF s = "" THEN ""
    ELSE IF CharIn(Head(s), keep)
         THEN Head(s) \o SubRuns(Tail(s), keep, rep, FALSE)
         ELSE (IF inRun THEN "" ELSE rep) \o SubRuns(Tail(s), keep, rep, TRUE)

\* re.sub(r"c+", "c", s): collapse runs of the character c
RECURSIVE Collapse(_, _, _)
Collapse(s, c, prevWasC) ==
    IF s = "" THEN ""
    ELSE IF Head(s) = c
         THEN (IF prevWasC THEN "" ELSE c) \o Collapse(Tail(s), c, TRUE)
         ELSE Head(s) \o Collapse(Tail(s), c, FALSE)

\* position of the last occurrence of character c in s, 0 when absent
RECURSIVE RFind(_, _)
RFind(s, c) == IF s = "" THEN 0
               ELSE IF CharAt(s, Len(s)) = c THEN Len(s)
               ELSE RFind(SubSeq(s, 1, Len(s) - 1), c)

\* ------------------------------------------------------------------------
\* Python dict helpers (a dict is a function; DOMAIN is its key set)
\* ------------------------------------------------------------------------

EmptyDict == [k \in {} |-> NULL]

\* d[k] = v
Put(d, k, v) == (k :> v) @@ d

\* d.pop(k, None)
Pop(d, k) == [x \in (DOMAIN d) \ {k} |-> d[x]] @@ EmptyDict

\* list(...): the sequence with every element computed
List(q) == SubSeq(q, 1, Len(q))

Get(d, k, default) == IF k \in DOMAIN d THEN d[k] ELSE default

SeqToSet(q) == {q[i] : i \in 1..Len(q)}

\* ------------------------------------------------------------------------
\* pathlib helpers on POSIX relative paths
\* ------------------------------------------------------------------------

\* Path(p).name
PathName(p) == LET i == RFind(p, "/") IN SubSeq(p, i + 1, Len(p))

\* str(Path(p).parent), "." when p has one segment
PathParent(p) == LET i == RFind(p, "/") IN IF i = 0 THEN "." ELSE SubSeq(p, 1, i - 1)

\* Path(p).parent.name if str(Path(p).parent) not in (".", "") else ""
ParentDirName(p) == LET parent == PathParent(p)
                    IN  IF parent \in {".", ""} THEN "" ELSE PathName(parent)

\* Path(p).stem
PathStem(p) == LET name == PathName(p)
                   i == RFind(name, ".")
               IN  IF 1 < i /\ i < Len(name) THEN SubSeq(name, 1, i - 1) ELSE name

\* Path(p).suffix
PathSuffix(p) == LET name == PathName(p)
                     i == RFind(name, ".")
                 IN  IF 1 < i /\ i < Len(name) THEN SubSeq(name, i, Len(name)) ELSE ""

\* file_path.suffix.lower().lstrip(".")
FileFormat(p) == LStripSet(Lower(PathSuffix(p)), {"."})

_path_hints_from_relpath(rel_path) == <<PathName(rel_path), ParentDirName(rel_path)>>

\* ------------------------------------------------------------------------
\* Vocabulary
\* ------------------------------------------------------------------------

PROTECTED_TAG_GROUPS == {"moods", "usable_in_contexts", "instruments", "styles"}

VK_GROUPS == [mood |-> "moods", context |-> "usable_in_contexts",
              instrument |-> "instruments", style |-> "styles"]

DEFAULT_PRIMARY_ROLES ==
    <<"menu", "exploration", "town", "combat", "boss", "cutscene", "ending", "ambient">>

ScaleDef(mn, mx, df) == [min |-> mn, max |-> mx, default |-> df]

default_vocab ==
    [primary_roles |-> DEFAULT_PRIMARY_ROLES,
     tag_vocab |->
        [moods |-> <<"calm", "cozy", "playful", "lighthearted", "hopeful", "romantic",
                     "mysterious", "suspenseful", "tense", "eerie", "ominous",
                     "melancholic", "heroic", "triumphant", "epic">>,
         styles |-> <<"cinematic", "orchestral", "ambient", "minimalist", "electronic",
                      "synthwave", "chiptune", "lofi", "rock", "jazz", "folk_acoustic",
                      "world", "industrial", "horror">>,
         usable_in_contexts |-> <<"menu", "loading", "exploration", "hub", "town",
                      "puzzle", "stealth", "combat", "boss", "cutscene", "game_over",
                      "ending", "credits">>,
         instruments |-> <<"orchestral", "piano", "strings", "guitar", "bass",
                      "percussion", "synth", "choir", "ethnic">>,
         for_game_settings |-> <<"fantasy", "sci-fi", "modern", "historical",
                      "post-apocalyptic", "cyberpunk", "steampunk">>],
     scale_defs |->
        [energy |-> ScaleDef(0, 5, 0), details |-> ScaleDef(0, 5, 0),
         tension |-> ScaleDef(0, 5, 0), diversity |-> ScaleDef(0, 5, 0),
         users_liking |-> ScaleDef(0, 5, 0)],
     \* list(scale_defs.keys()): the insertion order of the dict above
     scale_defs_keys |-> <<"energy", "details", "tension", "diversity", "users_liking">>,
     scale_names |-> <<"energy", "details", "tension", "diversity", "users_liking">>]

\* ------------------------------------------------------------------------
\* Virtual key generators
\* ------------------------------------------------------------------------

\* [a-z0-9], the characters re.sub keeps in a slug
SLUG_CHARS == Chars(LOWERCASE \o DECIMALS)

_slugify_part(s) ==
    LET s1 == Strip(Lower(s))
        s2 == SubRuns(s1, SLUG_CHARS, "-", FALSE)
        s3 == StripSet(Collapse(s2, "-", FALSE), {"-"})
    IN  IF s3 = "" THEN "unk" ELSE s3

VKPrefix(mood, context, instrument, style) ==
    _slugify_part(mood) \o "_" \o _slugify_part(context) \o "_"
        \o _slugify_part(instrument) \o "_" \o _slugify_part(style) \o "_"

\* the tails k[len(prefix):] of the existing keys that start with prefix and
\* whose tail isdigit()
DigitTails(prefix, existing) ==
    {SubSeq(k, Len(prefix) + 1, Len(k)) :
        k \in {e \in existing : StartsWith(e, prefix)
                                /\ isdigit(SubSeq(e, Len(prefix) + 1, Len(e)))}}

\* int(tail) raises ValueError out of generate_virtual_key_from_parts
generate_virtual_key_from_parts_raises(mood, context, instrument, style, existing) ==
    \E tail \in DigitTails(VKPrefix(mood, context, instrument, style), existing) :
        IntRaises(tail)

\* a variant that takes the number of serials in use, plus one
FirstFree_by_count(sn, used) == Cardinality(used) + 1

RECURSIVE FirstFree(_, _)
FirstFree(sn, used) == IF sn \in used THEN FirstFree(sn + 1, used) ELSE sn

generate_virtual_key_from_parts(mood, context, instrument, style, existing) ==
    LET prefix == VKPrefix(mood, context, instrument, style)
        used == {IntOf(tail) : tail \in DigitTails(prefix, existing)}
    IN  prefix \o Format03d(FirstFree(1, used))

RECURSIVE FirstFreeSuffix(_, _, _)
FirstFreeSuffix(base, i, existing) ==
    IF (base \o "_" \o StrOfNat(i)) \in existing
    THEN FirstFreeSuffix(base, i + 1, existing)
    ELSE base \o "_" \o StrOfNat(i)

\* the characters the model's file names are made of that match [\w\-]
WORD_CHARS == Chars(LOWERCASE \o UPPERCASE \o DECIMALS \o "_-")

generate_virtual_key_from_filename(filename_stem, existing) ==
    LET b0 == Strip(filename_stem)
        b1 == StripSet(SubRuns(b0, WORD_CHARS, "_", FALSE), {"_"})
        base == IF b1 = "" THEN "track" ELSE b1
    IN  IF base \notin existing THEN base ELSE FirstFreeSuffix(base, 0, existing)

default_vk_components(tag_vocab) ==
    LET pick_unknown_first(group) ==
            LET vals == IF group \in DOMAIN tag_vocab THEN SeqToSet(tag_vocab[group]) ELSE {}
            IN  IF "unk" \in vals THEN "unk"
                ELSE IF "unknown" \in vals THEN "unknown"
                ELSE "unk"
    IN  [g \in PROTECTED_TAG_GROUPS |-> pick_unknown_first(g)]

\* ------------------------------------------------------------------------
\* Per-track normalisation
\* ------------------------------------------------------------------------

LoopInfo == [can_loop |-> FALSE, loop_start_sec |-> NULL, loop_end_sec |-> NULL,
             intro_sec |-> NULL, outro_sec |-> NULL]

LicensingInfo == [source_pack |-> "", license_type |-> "", proof_url_or_file |-> "",
                  attribution_required |-> FALSE, attribution_text |-> ""]

TrackFingerprint(sha1, size, mtime) ==
    [sha1 |-> sha1, file_size |-> size, modified_time |-> mtime]

Cluster(cid, name) == [cluster_id |-> cid, name |-> name]

_ensure_track_path_hints(track) ==
    LET hints == _path_hints_from_relpath(track.original_path)
    IN  [track EXCEPT
            !.raw_file_name = IF @ = "" THEN hints[1] ELSE @,
            !.raw_parent_dir_name = IF @ = "" THEN hints[2] ELSE @]

Max(a, b) == IF a >= b THEN a ELSE b
Min(a, b) == IF a <= b THEN a ELSE b
Abs(a) == IF a < 0 THEN -a ELSE a

\* a variant that clamps to min and max as they are stored
ClampToScale_as_stored(v, sdef) == Max(sdef.min, Min(sdef.max, v))

\* the value ensure_track_scales stores for one scale
ClampToScale(v, sdef) ==
    LET mn == IF sdef.max < sdef.min THEN sdef.max ELSE sdef.min
        mx == IF sdef.max < sdef.min THEN sdef.min ELSE sdef.max
    IN  Max(mn, Min(mx, v))

ensure_track_scales(track, scale_defs) ==
    [track EXCEPT !.scales =
        [name \in (DOMAIN track.scales) \cup (DOMAIN scale_defs) |->
            IF name \in DOMAIN scale_defs
            THEN ClampToScale(Get(track.scales, name, scale_defs[name].default),
                              scale_defs[name])
            ELSE track.scales[name]]]

ensure_track_tags(track, tag_vocab) ==
    [track EXCEPT !.tags =
        [group \in (DOMAIN track.tags) \cup (DOMAIN tag_vocab) |->
            Get(track.tags, group, <<>>)]]

normalize_tag_value(value, aliases) ==
    LET key == Strip(value)
    IN  IF key = "" THEN "" ELSE Get(aliases, Lower(key), key)

UNKNOWN_TOKENS == {"unk", "unknown", "none", "-"}

\* the inner loop of normalize_track_tags over one group's values
RECURSIVE NormalizeValues(_, _, _, _, _)
NormalizeValues(values, group, aliases, normalized, seen) ==
    IF values = <<>> THEN normalized
    ELSE LET nv == normalize_tag_value(Head(values), aliases)
         IN  IF nv = ""
                \/ (group \in PROTECTED_TAG_GROUPS /\ Lower(nv) \in UNKNOWN_TOKENS)
                \/ Lower(nv) \in seen
             THEN NormalizeValues(Tail(values), group, aliases, normalized, seen)
             ELSE NormalizeValues(Tail(values), group, aliases,
                                  Append(normalized, nv), seen \cup {Lower(nv)})

normalize_track_tags(track, vocab, aliases) ==
    [track EXCEPT !.tags =
        [group \in DOMAIN track.tags |->
            IF group \notin DOMAIN vocab.tag_vocab
            THEN track.tags[group]
            ELSE NormalizeValues(track.tags[group], group, aliases, <<>>, {})]]

\* lines 523-527 and 780-782 of scan_and_sync: the per-track backfill
BackfillTrack(track, vocab, aliases, withHints) ==
    normalize_track_tags(
        ensure_track_scales(
            ensure_track_tags(
                IF withHints THEN _ensure_track_path_hints(track) ELSE track,
                vocab.tag_vocab),
            vocab.scale_defs),
        vocab, aliases)

\* ------------------------------------------------------------------------
\* Clusters
\* ------------------------------------------------------------------------

ClusterIds(clusters) == {clusters[i].cluster_id : i \in 1..Len(clusters)}

\* ensure_catalog_clusters over tracks[i..]; cat = [tracks, clusters, next_uuid]
RECURSIVE EnsureClustersFrom(_, _)
EnsureClustersFrom(cat, i) ==
    IF i > Len(cat.tracks) THEN cat
    ELSE LET t == cat.tracks[i]
             name == IF t.virtual_key = "" THEN "cluster" ELSE t.virtual_key
         IN  IF t.cluster_id # NULL /\ t.cluster_id \in ClusterIds(cat.clusters)
             THEN EnsureClustersFrom(cat, i + 1)
             ELSE IF t.cluster_id # NULL
             THEN EnsureClustersFrom(
                    [cat EXCEPT !.clusters = Append(@, Cluster(t.cluster_id, name))],
                    i + 1)
             ELSE EnsureClustersFrom(
                    [cat EXCEPT !.tracks[i].cluster_id = cat.next_uuid,
                                !.clusters = Append(@, Cluster(cat.next_uuid, name)),
                                !.next_uuid = @ + 1],
                    i + 1)

ensure_catalog_clusters(cat) == EnsureClustersFrom(cat, 1)

\* ------------------------------------------------------------------------
\* scan_and_sync
\*
\* The raw directory is a dict fs: relative path -> [sha1, size, mtime, length]
\* holding the audio files on disk.  Track objects held in the lookup maps of
\* the code are indices into the track list, which a scan only appends to.
\* ------------------------------------------------------------------------

ScanSummary == [new |-> 0, updated |-> 0, relinked |-> 0, missing |-> 0, duplicates |-> 0]

\* a variant that takes every file for gone
_file_exists_never(fs, rel_path) == FALSE

_file_exists(fs, rel_path) == rel_path \in DOMAIN fs

Indices(tracks) == 1..Len(tracks)

\* {t.original_path: t for t in catalog.tracks if t.original_path}: the last
\* track of a path wins
TrackByRelpath(tracks) ==
    EmptyDict @@ [p \in {tracks[i].original_path : i \in {j \in Indices(tracks) : tracks[j].original_path # ""}} |->
        CHOOSE i \in Indices(tracks) :
            /\ tracks[i].original_path = p
            /\ \A j \in Indices(tracks) : tracks[j].original_path = p => j <= i]

IsCanonicalCandidate(t) == t.fingerprint.sha1 # "" /\ t.duplicate_of = NULL

\* sha1 -> canonical track: the first track of a hash with no duplicate_of wins
CanonicalBySha1(tracks) ==
    EmptyDict @@ [h \in {tracks[i].fingerprint.sha1 : i \in {j \in Indices(tracks) : IsCanonicalCandidate(tracks[j])}} |->
        CHOOSE i \in Indices(tracks) :
            /\ IsCanonicalCandidate(tracks[i]) /\ tracks[i].fingerprint.sha1 = h
            /\ \A j \in Indices(tracks) :
                  (IsCanonicalCandidate(tracks[j]) /\ tracks[j].fingerprint.sha1 = h) => i <= j]

ExistingKeys(tracks) == {tracks[i].virtual_key : i \in Indices(tracks)} \ {""}

NameParentKey(fname, parent) == <<Strip(Lower(fname)), Strip(Lower(parent))>>

\* missing_by_name_parent[key], built from the tracks as they are when the scan
\* starts: the tracks whose file is not on disk, in catalog order
RECURSIVE MissingByNameParent(_, _, _, _)
MissingByNameParent(tracks, fs, key, i) ==
    IF i > Len(tracks) THEN <<>>
    ELSE LET t == tracks[i]
             rest == MissingByNameParent(tracks, fs, key, i + 1)
         IN  IF /\ t.original_path # ""
                /\ ~_file_exists(fs, t.original_path)
                /\ Strip(Lower(t.raw_file_name)) # ""
                /\ NameParentKey(t.raw_file_name, t.raw_parent_dir_name) = key
             THEN <<i>> \o rest
             ELSE rest

\* pick_name_parent_candidate: an index, 0 for None
pick_name_parent_candidate(cands, tracks) ==
    LET canon == SelectSeq(cands, LAMBDA i : tracks[i].duplicate_of = NULL)
    IN  IF cands = <<>> THEN 0
        ELSE IF Len(canon) = 1 THEN canon[1]
        ELSE IF Len(cands) = 1 THEN cands[1]
        ELSE 0

SameMtime(a, b) == Abs(a - b) * 1000000 < 1

\* one entry of `discovered` (lines 568-586)
Discover(fs, rel_path, tracks, by_relpath) ==
    LET f == fs[rel_path]
        cached == /\ rel_path \in DOMAIN by_relpath
                  /\ tracks[by_relpath[rel_path]].fingerprint.file_size = f.size
                  /\ SameMtime(tracks[by_relpath[rel_path]].fingerprint.modified_time, f.mtime)
    IN  [rel_path |-> rel_path,
         sha1 |-> IF cached THEN tracks[by_relpath[rel_path]].fingerprint.sha1 ELSE f.sha1,
         size |-> f.size, mtime |-> f.mtime,
         fmt |-> FileFormat(rel_path), length |-> f.length]

\* the Track(...) built at lines 637-677 and 731-771
NewTrack(tid, cid, d, vk, vocab, duplicate_of) ==
    LET vk_parts == default_vk_components(vocab.tag_vocab)
    IN  [track_id |-> tid,
         cluster_id |-> cid,
         original_path |-> d.rel_path,
         file_format |-> d.fmt,
         raw_file_name |-> PathName(d.rel_path),
         raw_parent_dir_name |-> ParentDirName(d.rel_path),
         fingerprint |-> TrackFingerprint(d.sha1, d.size, d.mtime),
         virtual_key |-> vk,
         primary_role |-> "",
         tags |-> [group \in DOMAIN vocab.tag_vocab |->
                     IF group \in PROTECTED_TAG_GROUPS /\ vk_parts[group] # ""
                     THEN <<vk_parts[group]>> ELSE <<>>],
         scales |-> [name \in DOMAIN vocab.scale_defs |-> vocab.scale_defs[name].default],
         loop_info |-> LoopInfo,
         length_sec |-> d.length,
         bpm |-> NULL,
         notes |-> "",
         licensing |-> LicensingInfo,
         missing_file |-> FALSE,
         duplicate_of |-> duplicate_of]

\* the virtual key of a track the scan creates (lines 638-648, 732-742)
NewVirtualKeyRaises(rel_path, vocab, existing_keys, init_virtual_key_from_filename) ==
    LET vk_parts == default_vk_components(vocab.tag_vocab)
    IN  /\ ~init_virtual_key_from_filename
        /\ generate_virtual_key_from_parts_raises(vk_parts["moods"],
               vk_parts["usable_in_contexts"], vk_parts["instruments"],
               vk_parts["styles"], existing_keys)

\* a scan that builds every key from the default tag parts
NewVirtualKey_from_parts(rel_path, vocab, existing_keys, init_virtual_key_from_filename) ==
    LET vk_parts == default_vk_components(vocab.tag_vocab)
    IN  generate_virtual_key_from_parts(vk_parts["moods"],
               vk_parts["usable_in_contexts"], vk_parts["instruments"],
               vk_parts["styles"], existing_keys)

NewVirtualKey(rel_path, vocab, existing_keys, init_virtual_key_from_filename) ==
    LET vk_parts == default_vk_components(vocab.tag_vocab)
    IN  IF init_virtual_key_from_filename
        THEN generate_virtual_key_from_filename(PathStem(rel_path), existing_keys)
        ELSE generate_virtual_key_from_parts(vk_parts["moods"],
               vk_parts["usable_in_contexts"], vk_parts["instruments"],
               vk_parts["styles"], existing_keys)

\* a scan that creates the asset under a cluster id without a cluster record
CreateTrack_without_cluster(S, d, ctx, duplicate_of) ==
    IF NewVirtualKeyRaises(d.rel_path, ctx.vocab, S.existing_keys, ctx.init_from_filename)
    THEN [S EXCEPT !.raised = TRUE]
    ELSE
    LET tid == S.next_uuid
        cid == S.next_uuid + 1
        vk == NewVirtualKey(d.rel_path, ctx.vocab, S.existing_keys, ctx.init_from_filename)
        idx == Len(S.tracks) + 1
    IN  [S EXCEPT
            !.next_uuid = @ + 2,
            !.existing_keys = @ \cup {vk},
            !.tracks = Append(@, NewTrack(tid, cid, d, vk, ctx.vocab, duplicate_of)),
            !.track_by_relpath = Put(@, d.rel_path, idx),
            !.canonical_by_sha1 = IF duplicate_of = NULL THEN Put(@, d.sha1, idx) ELSE @,
            !.summary.new = IF duplicate_of = NULL THEN @ + 1 ELSE @,
            !.summary.duplicates = IF duplicate_of = NULL THEN @ ELSE @ + 1]

\* lines 636-683 (duplicate_of = NULL) and 730-775 (duplicate_of = the canonical)
CreateTrack(S, d, ctx, duplicate_of) ==
    IF NewVirtualKeyRaises(d.rel_path, ctx.vocab, S.existing_keys, ctx.init_from_filename)
    THEN [S EXCEPT !.raised = TRUE]
    ELSE
    LET tid == S.next_uuid
        cid == S.next_uuid + 1
        vk == NewVirtualKey(d.rel_path, ctx.vocab, S.existing_keys, ctx.init_from_filename)
        idx == Len(S.tracks) + 1
    IN  [S EXCEPT
            !.next_uuid = @ + 2,
            !.existing_keys = @ \cup {vk},
            !.clusters = Append(@, Cluster(cid, vk)),
            !.tracks = Append(@, NewTrack(tid, cid, d, vk, ctx.vocab, duplicate_of)),
            !.track_by_relpath = Put(@, d.rel_path, idx),
            !.canonical_by_sha1 = IF duplicate_of = NULL THEN Put(@, d.sha1, idx) ELSE @,
            !.summary.new = IF duplicate_of = NULL THEN @ + 1 ELSE @,
            !.summary.duplicates = IF duplicate_of = NULL THEN @ ELSE @ + 1]

\* lines 604-634: relink candidate ci to the scanned file by name and parent
NameRelink(S, d, ci) ==
    LET cand == S.tracks[ci]
        old_sha == cand.fingerprint.sha1
        old_path == cand.original_path
        canon1 == IF old_sha # "" /\ Get(S.canonical_by_sha1, old_sha, 0) = ci
                  THEN Pop(S.canonical_by_sha1, old_sha)
                  ELSE S.canonical_by_sha1
    IN  [S EXCEPT
            !.tracks[ci] = [cand EXCEPT
                !.original_path = d.rel_path,
                !.file_format = d.fmt,
                !.fingerprint = TrackFingerprint(d.sha1, d.size, d.mtime),
                !.raw_file_name = _path_hints_from_relpath(d.rel_path)[1],
                !.raw_parent_dir_name = _path_hints_from_relpath(d.rel_path)[2],
                !.length_sec = IF d.length # NULL THEN d.length ELSE @,
                !.missing_file = FALSE],
            !.track_by_relpath = Put(Pop(@, old_path), d.rel_path, ci),
            !.used_name_relinks = @ \cup {cand.track_id},
            !.canonical_by_sha1 = IF cand.duplicate_of = NULL
                                  THEN Put(canon1, d.sha1, ci) ELSE @,
            !.summary.relinked = @ + 1]

\* lines 699-717: the canonical's file is gone, relink it to the scanned path
HashRelink(S, d, ci) ==
    LET canonical == S.tracks[ci]
    IN  [S EXCEPT
            !.tracks[ci] = [canonical EXCEPT
                !.original_path = d.rel_path,
                !.file_format = d.fmt,
                !.raw_file_name = PathName(d.rel_path),
                !.raw_parent_dir_name = ParentDirName(d.rel_path),
                !.fingerprint.file_size = d.size,
                !.fingerprint.modified_time = d.mtime,
                !.length_sec = IF @ = NULL /\ d.length # NULL THEN d.length ELSE @],
            !.track_by_relpath = Put(Pop(@, canonical.original_path), d.rel_path, ci),
            !.summary.relinked = @ + 1]

\* lines 688-697: the canonical is at the scanned path
SamePathHit(S, d, ci) ==
    LET canonical == S.tracks[ci]
    IN  IF canonical.fingerprint.file_size # d.size
           \/ ~SameMtime(canonical.fingerprint.modified_time, d.mtime)
        THEN [S EXCEPT
                !.tracks[ci].fingerprint.file_size = d.size,
                !.tracks[ci].fingerprint.modified_time = d.mtime,
                !.tracks[ci].file_format = d.fmt,
                !.tracks[ci].length_sec = IF @ = NULL /\ d.length # NULL THEN d.length ELSE @,
                !.summary.updated = @ + 1]
        ELSE S

\* lines 719-728: a second copy at a path that already has a track
MarkExistingDuplicate(S, d, ei, ci) ==
    LET existing_track == S.tracks[ei]
        link == existing_track.duplicate_of = NULL
                /\ existing_track.track_id # S.tracks[ci].track_id
    IN  [S EXCEPT
            !.tracks[ei].missing_file = FALSE,
            !.tracks[ei].raw_file_name = PathName(d.rel_path),
            !.tracks[ei].raw_parent_dir_name = ParentDirName(d.rel_path),
            !.tracks[ei].duplicate_of = IF link THEN S.tracks[ci].track_id ELSE @,
            !.summary.updated = IF link THEN @ + 1 ELSE @]

\* the loop without the two guards of line 602 and 603: a candidate is
\* relinked whenever one is picked
ReconcileOne_relinking_again(S, d, ctx) ==
    LET existing_track == Get(S.track_by_relpath, d.rel_path, 0)
        canonical == Get(S.canonical_by_sha1, d.sha1, 0)
    IN  IF S.raised THEN S
        ELSE IF canonical = 0
        THEN LET hints == _path_hints_from_relpath(d.rel_path)
                 key == NameParentKey(hints[1], hints[2])
                 cand == pick_name_parent_candidate(
                            MissingByNameParent(ctx.start_tracks, ctx.fs, key, 1), S.tracks)
             IN  IF /\ existing_track = 0
                    /\ cand # 0
                 THEN NameRelink(S, d, cand)
                 ELSE CreateTrack(S, d, ctx, NULL)
        ELSE LET S1 == [S EXCEPT !.tracks[canonical].missing_file = FALSE]
             IN  IF S1.tracks[canonical].original_path = d.rel_path
                 THEN SamePathHit(S1, d, canonical)
                 ELSE IF ~_file_exists(ctx.fs, S1.tracks[canonical].original_path)
                 THEN HashRelink(S1, d, canonical)
                 ELSE IF existing_track # 0
                 THEN MarkExistingDuplicate(S1, d, existing_track, canonical)
                 ELSE CreateTrack(S1, d, ctx, S1.tracks[canonical].track_id)

\* one iteration of the reconcile loop (lines 591-775)
ReconcileOne(S, d, ctx) ==
    LET existing_track == Get(S.track_by_relpath, d.rel_path, 0)
        canonical == Get(S.canonical_by_sha1, d.sha1, 0)
    IN  IF S.raised THEN S
        ELSE IF canonical = 0
        THEN LET hints == _path_hints_from_relpath(d.rel_path)
                 key == NameParentKey(hints[1], hints[2])
                 cand == pick_name_parent_candidate(
                            MissingByNameParent(ctx.start_tracks, ctx.fs, key, 1), S.tracks)
             IN  IF /\ existing_track = 0
                    /\ cand # 0
                    /\ S.tracks[cand].track_id \notin S.used_name_relinks
                    /\ ~_file_exists(ctx.fs, S.tracks[cand].original_path)
                 THEN NameRelink(S, d, cand)
                 ELSE CreateTrack(S, d, ctx, NULL)
        ELSE LET S1 == [S EXCEPT !.tracks[canonical].missing_file = FALSE]
             IN  IF S1.tracks[canonical].original_path = d.rel_path
                 THEN SamePathHit(S1, d, canonical)
                 ELSE IF ~_file_exists(ctx.fs, S1.tracks[canonical].original_path)
                 THEN HashRelink(S1, d, canonical)
                 ELSE IF existing_track # 0
                 THEN MarkExistingDuplicate(S1, d, existing_track, canonical)
                 ELSE CreateTrack(S1, d, ctx, S1.tracks[canonical].track_id)

RECURSIVE ReconcileAll(_, _, _)
ReconcileAll(S, discovered, ctx) ==
    IF discovered = <<>> THEN S
    ELSE ReconcileAll(ReconcileOne(S, Head(discovered), ctx), Tail(discovered), ctx)

CountMissing(tracks) == Cardinality({i \in Indices(tracks) : tracks[i].missing_file})

\* scan_and_sync(raw_music_dir, catalog, init_virtual_key_from_filename).
\* cat = [tracks, clusters, next_uuid]; order is the sequence in which
\* iter_audio_files yields the files of fs.  The result holds the catalog
\* fields, the summary and `raised` (generate_virtual_key_from_parts raised
\* ValueError and the scan was abandoned where it stood).
scan_and_sync(fs, order, cat, vocab, aliases, init_virtual_key_from_filename) ==
    LET \* lines 777-787
        Finish(S1, post) ==
            IF S1.raised
            THEN [tracks |-> S1.tracks, clusters |-> S1.clusters,
                  next_uuid |-> S1.next_uuid, summary |-> S1.summary, raised |-> TRUE]
            ELSE [tracks |-> post, clusters |-> S1.clusters, next_uuid |-> S1.next_uuid,
                  summary |-> [S1.summary EXCEPT !.missing = CountMissing(post)],
                  raised |-> FALSE]
        PostProcess(S1) ==
            Finish(S1, List([i \in Indices(S1.tracks) |->
                                BackfillTrack(S1.tracks[i], vocab, aliases, FALSE)]))
        \* lines 560-775
        Reconcile(c1, by_relpath0, backfilled) ==
            PostProcess(
                ReconcileAll(
                    [tracks |-> List([i \in Indices(backfilled) |->
                                        [backfilled[i] EXCEPT !.missing_file = TRUE]]),
                     clusters |-> c1.clusters, next_uuid |-> c1.next_uuid,
                     track_by_relpath |-> by_relpath0,
                     canonical_by_sha1 |-> CanonicalBySha1(c1.tracks),
                     existing_keys |-> ExistingKeys(c1.tracks), used_name_relinks |-> {},
                     summary |-> ScanSummary, raised |-> FALSE],
                    List([k \in 1..Len(order) |->
                            Discover(fs, order[k], backfilled, by_relpath0)]),
                    [fs |-> fs, vocab |-> vocab, start_tracks |-> backfilled,
                     init_from_filename |-> init_virtual_key_from_filename]))
        \* lines 509-527
        Prepare(c1) ==
            Reconcile(c1, TrackByRelpath(c1.tracks),
                      List([i \in Indices(c1.tracks) |->
                              BackfillTrack(c1.tracks[i], vocab, aliases, TRUE)]))
    IN  Prepare(ensure_catalog_clusters(cat))

\* ------------------------------------------------------------------------
\* Serialisation (save_catalog_atomic's payload)
\* ------------------------------------------------------------------------

\* catalog.model_dump(mode="json") without the two timestamps
CatalogPayload(cat) ==
    [schema_version |-> 2,
     raw_music_directory |-> cat.raw_music_directory,
     vocab |-> [primary_roles |-> cat.vocab.primary_roles,
                tag_vocab |-> cat.vocab.tag_vocab,
                scale_defs |-> cat.vocab.scale_defs,
                \* the order in which the text lists the keys of scale_defs
                scale_defs_keys |-> cat.vocab.scale_defs_keys,
                scale_names |-> cat.vocab.scale_names],
     aliases |-> cat.aliases,
     clusters |-> cat.clusters,
     tracks |-> cat.tracks]

_prune_redundant_catalog_fields(payload, scale_defs_keys) ==
    LET drop_aliases == payload.aliases = EmptyDict
        pr == payload.vocab.primary_roles
        sn == payload.vocab.scale_names
        drop_pr == pr = DEFAULT_PRIMARY_ROLES \/ pr = <<>>
        drop_sn == sn = <<>> \/ sn = scale_defs_keys
        vocab_keys == (DOMAIN payload.vocab)
                        \ ((IF drop_pr THEN {"primary_roles"} ELSE {})
                           \cup (IF drop_sn THEN {"scale_names"} ELSE {}))
        keys == (DOMAIN payload) \ (IF drop_aliases THEN {"aliases"} ELSE {})
    IN  [k \in keys |->
            IF k = "vocab" THEN [v \in vocab_keys |-> payload.vocab[v]] ELSE payload[k]]

\* the text save_catalog_atomic writes, timestamps left out
Serialize(cat) ==
    _prune_redundant_catalog_fields(CatalogPayload(cat), cat.vocab.scale_defs_keys)

\* ------------------------------------------------------------------------
\* Cluster manager (api_clusters_merge, api_clusters_split)
\*
\* A handler is an operator from the in-memory catalog
\* cat = [tracks, clusters, next_uuid] and the request to the catalog it leaves
\* in memory, the HTTP status, whether it called st.save(), and its response.
\* ------------------------------------------------------------------------

\* code point order of the characters of the model's paths
CODE_POINTS == " -./0123456789" \o UPPERCASE \o "_" \o LOWERCASE

RECURSIVE StrLess(_, _)
StrLess(a, b) ==
    IF b = "" THEN FALSE
    ELSE IF a = "" THEN TRUE
    ELSE IF Head(a) = Head(b) THEN StrLess(Tail(a), Tail(b))
    ELSE IndexIn(Head(a), CODE_POINTS) < IndexIn(Head(b), CODE_POINTS)

\* key=lambda x: (x.original_path or '', str(x.track_id))
MergeOrderLess(t1, t2) ==
    \/ StrLess(t1.original_path, t2.original_path)
    \/ (t1.original_path = t2.original_path /\ t1.track_id < t2.track_id)

\* sorted(indices, key=...) over a set of track indices
RECURSIVE SortedIndices(_, _)
SortedIndices(idxs, tracks) ==
    IF idxs = {} THEN <<>>
    ELSE LET m == CHOOSE i \in idxs :
                    \A j \in idxs \ {i} : MergeOrderLess(tracks[i], tracks[j])
         IN  <<m>> \o SortedIndices(idxs \ {m}, tracks)

_get_cluster_tracks(tracks, cluster_id) ==
    SelectSeq([i \in Indices(tracks) |-> i], LAMBDA i : tracks[i].cluster_id = cluster_id)

_pick_identity_value(track, group) ==
    IF group \in DOMAIN track.tags /\ track.tags[group] # <<>>
    THEN track.tags[group][1] ELSE ""

RECURSIVE NormalizePrimaryRest(_, _, _)
NormalizePrimaryRest(values, out, seen) ==
    IF values = <<>> THEN out
    ELSE IF Head(values) = "" \/ Head(values) \in seen
         THEN NormalizePrimaryRest(Tail(values), out, seen)
         ELSE NormalizePrimaryRest(Tail(values), Append(out, Head(values)),
                                   seen \cup {Head(values)})

_normalize_primary_list(primary, values) ==
    IF primary # "" THEN NormalizePrimaryRest(values, <<primary>>, {primary})
    ELSE NormalizePrimaryRest(values, <<>>, {})

\* lines 526-543: what the merge writes on one moved track
MoveIntoTarget(t, target_uuid, template) ==
    LET identity(group) ==
            _normalize_primary_list(_pick_identity_value(template, group),
                                    Get(template.tags, group, <<>>))
    IN  [t EXCEPT
            !.cluster_id = target_uuid,
            !.bpm = template.bpm,
            !.scales = template.scales,
            !.tags = [g \in (DOMAIN template.tags) \cup PROTECTED_TAG_GROUPS |->
                        IF g \in PROTECTED_TAG_GROUPS THEN identity(g) ELSE template.tags[g]],
            !.licensing = template.licensing]

\* lines 551-559: regenerate the keys of the target's tracks in sorted order
RECURSIVE RegenerateKeys(_, _, _, _)
RegenerateKeys(tracks, order, parts, reserved) ==
    IF order = <<>> THEN tracks
    ELSE IF generate_virtual_key_from_parts_raises(parts[1], parts[2], parts[3], parts[4], reserved)
    THEN RegenerateKeys(tracks, Tail(order), parts, reserved)
    ELSE LET new_vk == generate_virtual_key_from_parts(parts[1], parts[2], parts[3], parts[4], reserved)
         IN  RegenerateKeys([tracks EXCEPT ![Head(order)].virtual_key = new_vk],
                            Tail(order), parts, reserved \cup {new_vk})

RemoveCluster(clusters, cluster_id) ==
    SelectSeq(clusters, LAMBDA c : c.cluster_id # cluster_id)

Response(cat, status, saved, body) ==
    [tracks |-> cat.tracks, clusters |-> cat.clusters, next_uuid |-> cat.next_uuid,
     status |-> status, saved |-> saved, body |-> body]

api_clusters_merge(cat, target_id, source_id) ==
    IF target_id = BAD_ID \/ source_id = BAD_ID
    THEN Response(cat, 400, FALSE, "Invalid cluster id")
    ELSE IF target_id = source_id
    THEN Response(cat, 400, FALSE, "Cannot merge a cluster into itself")
    ELSE
    LET c1 == ensure_catalog_clusters(cat)
        target_tracks == _get_cluster_tracks(c1.tracks, target_id)
        source_tracks == _get_cluster_tracks(c1.tracks, source_id)
    IN  IF target_id \notin ClusterIds(c1.clusters) \/ source_id \notin ClusterIds(c1.clusters)
        THEN Response(c1, 404, FALSE, "Cluster not found")
        ELSE IF target_tracks = <<>>
        THEN Response(c1, 400, FALSE, "Target cluster has no tracks")
        ELSE IF source_tracks = <<>>
        THEN Response([c1 EXCEPT !.clusters = RemoveCluster(@, source_id)],
                      200, TRUE, [moved |-> 0])
        ELSE
        LET template == c1.tracks[target_tracks[1]]
            parts == <<_pick_identity_value(template, VK_GROUPS.mood),
                       _pick_identity_value(template, VK_GROUPS.context),
                       _pick_identity_value(template, VK_GROUPS.instrument),
                       _pick_identity_value(template, VK_GROUPS.style)>>
            moved_tracks == [i \in Indices(c1.tracks) |->
                                IF c1.tracks[i].cluster_id = source_id
                                THEN MoveIntoTarget(c1.tracks[i], target_id, template)
                                ELSE c1.tracks[i]]
            target_all == {i \in Indices(moved_tracks) : moved_tracks[i].cluster_id = target_id}
            reserved == {moved_tracks[i].virtual_key :
                            i \in {j \in Indices(moved_tracks) :
                                      /\ moved_tracks[j].virtual_key # ""
                                      /\ moved_tracks[j].cluster_id # target_id}}
            rekeyed == RegenerateKeys(moved_tracks, SortedIndices(target_all, moved_tracks),
                                      parts, reserved)
        IN  Response([c1 EXCEPT !.tracks = rekeyed,
                                !.clusters = RemoveCluster(@, source_id)],
                     200, TRUE, [moved |-> Len(source_tracks)])

\* chosen: the set of parsed track ids; BAD_ID in it is an id that does not parse
api_clusters_split(cat, source_id, chosen, new_cluster_name) ==
    IF source_id = BAD_ID
    THEN Response(cat, 400, FALSE, "Invalid cluster id")
    ELSE
    LET c1 == ensure_catalog_clusters(cat)
        source_tracks == _get_cluster_tracks(c1.tracks, source_id)
        source_track_ids == {c1.tracks[source_tracks[k]].track_id : k \in 1..Len(source_tracks)}
        source_name == (CHOOSE c \in SeqToSet(c1.clusters) : c.cluster_id = source_id).name
        new_cluster_id == c1.next_uuid
        new_name == IF new_cluster_name # "" THEN new_cluster_name
                    ELSE Strip(IF source_name = "" THEN "cluster" ELSE source_name) \o " (split)"
        selected == {i \in Indices(c1.tracks) :
                        c1.tracks[i].track_id \in chosen /\ c1.tracks[i].cluster_id = source_id}
    IN  IF source_id \notin ClusterIds(c1.clusters)
        THEN Response(c1, 404, FALSE, "Cluster not found")
        ELSE IF source_tracks = <<>>
        THEN Response(c1, 400, FALSE, "Source cluster has no tracks")
        ELSE IF BAD_ID \in chosen
        THEN Response(c1, 400, FALSE, "Invalid track_id")
        ELSE IF chosen = {}
        THEN Response(c1, 400, FALSE, "No tracks selected")
        ELSE IF chosen \ source_track_ids # {}
        THEN Response(c1, 400, FALSE, "Some selected tracks are not in the source cluster")
        ELSE IF Cardinality(chosen) >= Len(source_tracks)
        THEN Response(c1, 400, FALSE, "Cannot split: selection must be a strict subset")
        ELSE Response(
                [c1 EXCEPT
                    !.next_uuid = @ + 1,
                    !.clusters = Append(@, Cluster(new_cluster_id, new_name)),
                    !.tracks = [i \in Indices(c1.tracks) |->
                                  IF i \in selected
                                  THEN [c1.tracks[i] EXCEPT !.cluster_id = new_cluster_id]
                                  ELSE c1.tracks[i]]],
                200, TRUE,
                [new_cluster_id |-> new_cluster_id, moved |-> Cardinality(selected)])

\* ------------------------------------------------------------------------
\* Track API (api_update_track, api_delete_track)
\* ------------------------------------------------------------------------

TrackIds(tracks) == {tracks[i].track_id : i \in Indices(tracks)}

\* the index of the first track with this id, 0 when there is none
IndexOfTrack(tracks, tid) ==
    IF tid \in TrackIds(tracks)
    THEN CHOOSE i \in Indices(tracks) :
            tracks[i].track_id = tid /\ \A j \in 1..(i - 1) : tracks[j].track_id # tid
    ELSE 0

\* new_track_data: the "track" object of the payload, a track record
\* an update that stores the body as the client sent it
api_update_track_trusting_body(cat, track_id, new_track_data) ==
    LET idx == IndexOfTrack(cat.tracks, track_id)
    IN  IF track_id = BAD_ID
        THEN Response(cat, 400, FALSE, "Invalid track_id")
        ELSE IF idx = 0
        THEN Response(cat, 404, FALSE, "Track not found")
        ELSE IF Strip(new_track_data.virtual_key) = ""
        THEN Response(cat, 400, FALSE, "virtual_key cannot be empty")
        ELSE IF \E j \in Indices(cat.tracks) :
                    j # idx /\ cat.tracks[j].virtual_key = Strip(new_track_data.virtual_key)
        THEN Response(cat, 409, FALSE, "virtual_key already exists")
        ELSE Response([cat EXCEPT !.tracks[idx] = new_track_data], 200, TRUE, [ok |-> TRUE])

api_update_track(cat, track_id, new_track_data) ==
    LET idx == IndexOfTrack(cat.tracks, track_id)
        new_vk == Strip(new_track_data.virtual_key)
    IN  IF track_id = BAD_ID
        THEN Response(cat, 400, FALSE, "Invalid track_id")
        ELSE IF idx = 0
        THEN Response(cat, 404, FALSE, "Track not found")
        ELSE IF new_vk = ""
        THEN Response(cat, 400, FALSE, "virtual_key cannot be empty")
        ELSE IF \E j \in Indices(cat.tracks) : j # idx /\ cat.tracks[j].virtual_key = new_vk
        THEN Response(cat, 409, FALSE, "virtual_key already exists")
        ELSE Response([cat EXCEPT !.tracks[idx] = [new_track_data EXCEPT !.track_id = track_id]],
                      200, TRUE, [ok |-> TRUE])

RemoveAt(q, i) == SubSeq(q, 1, i - 1) \o SubSeq(q, i + 1, Len(q))

\* a variant that pops the asset and leaves the other assets as they are
api_delete_track_keeping_refs(cat, track_id) ==
    LET idx == IndexOfTrack(cat.tracks, track_id)
    IN  IF track_id = BAD_ID
        THEN Response(cat, 400, FALSE, "Invalid track_id")
        ELSE IF idx = 0
        THEN Response(cat, 404, FALSE, "Track not found")
        ELSE Response([cat EXCEPT !.tracks = RemoveAt(cat.tracks, idx)],
                      200, TRUE, [ok |-> TRUE])

api_delete_track(cat, track_id) ==
    LET idx == IndexOfTrack(cat.tracks, track_id)
        popped == RemoveAt(cat.tracks, idx)
    IN  IF track_id = BAD_ID
        THEN Response(cat, 400, FALSE, "Invalid track_id")
        ELSE IF idx = 0
        THEN Response(cat, 404, FALSE, "Track not found")
        ELSE Response(
                [cat EXCEPT !.tracks =
                    [i \in Indices(popped) |->
                        IF popped[i].duplicate_of = track_id
                        THEN [popped[i] EXCEPT !.duplicate_of = NULL]
                        ELSE popped[i]]],
                200, TRUE, [ok |-> TRUE])

\* ------------------------------------------------------------------------
\* The running application: the raw music directory, the State singleton's
\* catalog and the catalog file
\* ------------------------------------------------------------------------

VARIABLES
    fs,         \* RawMusicDirectory: relative path -> [sha1, size, mtime, length]
    tracks,     \* st.catalog.tracks
    clusters,   \* st.catalog.clusters
    vocab,      \* st.catalog.vocab
    aliases,    \* st.catalog.aliases
    next_uuid,  \* the next value uuid4() returns
    disk,       \* the catalog file and its ".tmp" sibling: path -> [data, written, mtime]
    _catalog_stat, \* State._catalog_stat: (st_mtime_ns, st_size) at the last load or save
    save_pc,    \* where the process is inside save_catalog_atomic
    writers,    \* the processes that save to one catalog path side by side
    scanning,   \* the scan_and_sync call in progress: its loop state and what is left
    last_op,    \* the last request or file system event, with its response
    budget      \* how many more file system events and requests the run explores

vars == <<fs, tracks, clusters, vocab, aliases, next_uuid, disk, _catalog_stat,
          save_pc, writers, scanning, last_op, budget>>

\* the most assets a catalog of an explored run holds
MaxTracks == 3

\* write_text delivers the text in this many pieces
WriteChunks == 2

\* the requests, and the rescans, of an explored run of the catalog under
\* requests
MaxRequests == 2

MaxRescans == 1

\* the file system events, and the rescans, of an explored run of the catalog
\* under file system changes
MaxFsEvents == 2

MaxScanRounds == 2

\* the saves of an explored run of the catalog file under saves
MaxSaves == 2

RAW_DIR == "raw"

AUDIO_EXTENSIONS == {".mp3", ".ogg", ".wav", ".flac", ".m4a", ".aac"}

\* the second has the lower-cased name and parent directory name of the first
Paths == {"a/x.mp3", "b/a/X.mp3", "a/y.mp3"}

Contents == {"h1", "h2"}

MTimes == {1, 2}

\* audio_length_seconds: None when mutagen cannot read the file
audio_length_seconds(content) == IF content = "h1" THEN 30 ELSE NULL

\* sha1_file, stat().st_size, stat().st_mtime and the length of one file
FileOf(content, mtime) ==
    [sha1 |-> content, size |-> 10, mtime |-> mtime,
     length |-> audio_length_seconds(content)]

FileVersions == {FileOf(c, m) : c \in Contents, m \in MTimes}

iter_audio_files(files) ==
    {p \in DOMAIN files : Lower(PathSuffix(p)) \in AUDIO_EXTENSIONS}

RECURSIVE Perms(_)
Perms(S) ==
    IF S = {} THEN {<<>>}
    ELSE UNION {{<<x>> \o q : q \in Perms(S \ {x})} : x \in S}

\* a file's text, of which `written` pieces have reached the disk, and the
\* time of its last modification
FileText(data, written, mtime) == [data |-> data, written |-> written, mtime |-> mtime]

\* the path does not exist
NO_FILE == [written |-> NULL]

\* the file exists and holds all of its text
IsComplete(file) == file.written = WriteChunks

FullCatalog(cat, voc, ali) ==
    [raw_music_directory |-> RAW_DIR, vocab |-> voc, aliases |-> ali,
     clusters |-> cat.clusters, tracks |-> cat.tracks]

CATALOG_PATH == "catalog.json"

\* a variant that writes the text straight into the catalog file
tmp_path_in_place(catalog_path) == catalog_path

\* catalog_path.with_suffix(catalog_path.suffix + ".tmp")
tmp_path(catalog_path) == catalog_path \o ".tmp"

NoFiles == [p \in {CATALOG_PATH, tmp_path(CATALOG_PATH)} |-> NO_FILE]

\* a time later than the last modification of every file
Later(files) ==
    LET times == {files[p].mtime : p \in {q \in DOMAIN files : files[q] # NO_FILE}}
    IN  IF times = {} THEN 1 ELSE 1 + (CHOOSE t \in times : \A u \in times : u <= t)

\* write_text: open the file for writing, which empties it, ...
OpenForWrite(files, path, data) ==
    [files EXCEPT ![path] = FileText(data, 0, Later(files))]

\* ... then deliver the text piece by piece
WritePiece(files, path) == [files EXCEPT ![path].written = @ + 1]

\* Path.replace: an atomic rename over the destination
replace(files, src, dst) ==
    IF src = dst THEN files ELSE [files EXCEPT ![dst] = files[src], ![src] = NO_FILE]

\* the text of the catalog, timestamps left out
Payload(cat, voc, ali) == Serialize(FullCatalog(cat, voc, ali))

RECURSIVE SumLen(_, _)
SumLen(q, field) == IF q = <<>> THEN 0 ELSE Len(Head(q)[field]) + 1 + SumLen(Tail(q), field)

\* the length of a catalog text, counted over what varies between the
\* catalogs of the model: the directory, the clusters, and each asset's key
\* and path
TextSize(data) ==
    Len(data.raw_music_directory) + SumLen(data.clusters, "name")
        + SumLen(data.tracks, "virtual_key") + SumLen(data.tracks, "original_path")

\* st_size of a file whose text has reached the disk in part
st_size(file) == (TextSize(file.data) * file.written) \div WriteChunks

\* no stat: State._catalog_stat is None
NO_STAT == <<>>

\* State._refresh_catalog_stat
_refresh_catalog_stat(files) ==
    IF files[CATALOG_PATH] = NO_FILE THEN NO_STAT
    ELSE <<files[CATALOG_PATH].mtime, st_size(files[CATALOG_PATH])>>

\* the files save_catalog_atomic leaves when nothing interrupts it
save_catalog_atomic(files, cat, voc, ali) ==
    LET tmp == tmp_path(CATALOG_PATH)
        opened == OpenForWrite(files, tmp, Payload(cat, voc, ali))
    IN  replace([opened EXCEPT ![tmp].written = WriteChunks], tmp, CATALOG_PATH)

EmptyCatalog == [tracks |-> <<>>, clusters |-> <<>>, next_uuid |-> 1]

NoOp ==
    [op |-> "load", status |-> 200, a |-> NULL, b |-> NULL, chosen |-> {},
     src |-> "", dst |-> "", summary |-> ScanSummary, moved |-> 0,
     raised |-> FALSE, prev |-> "", args |-> <<>>, result |-> ""]

\* json.loads and Catalog.model_validate: what the text leaves out takes the
\* default of its field
model_validate(data) ==
    [raw_music_directory |-> data.raw_music_directory,
     vocab |-> [primary_roles |-> Get(data.vocab, "primary_roles", <<>>),
                tag_vocab |-> data.vocab.tag_vocab,
                scale_defs |-> data.vocab.scale_defs,
                scale_defs_keys |-> data.vocab.scale_defs_keys,
                scale_names |-> Get(data.vocab, "scale_names", <<>>)],
     aliases |-> Get(data, "aliases", EmptyDict),
     clusters |-> data.clusters,
     tracks |-> data.tracks]

_ensure_vocab_scales(voc) ==
    LET names == NormalizePrimaryRest(voc.scale_names, <<>>, {})
        Named(v1) == IF v1.scale_names = <<>>
                     THEN [v1 EXCEPT !.scale_names = v1.scale_defs_keys] ELSE v1
    IN  Named(IF DOMAIN voc.scale_defs = {}
              THEN [voc EXCEPT !.scale_defs = [n \in SeqToSet(names) |-> ScaleDef(0, 5, 0)],
                               !.scale_defs_keys = names]
              ELSE voc)

\* the loop of _strip_vocab_unknown_options over one group's values
RECURSIVE StripUnknown(_, _, _)
StripUnknown(vals, cleaned, seen) ==
    IF vals = <<>> THEN cleaned
    ELSE IF Strip(Head(vals)) = ""
            \/ Lower(Strip(Head(vals))) \in UNKNOWN_TOKENS
            \/ Lower(Strip(Head(vals))) \in seen
         THEN StripUnknown(Tail(vals), cleaned, seen)
         ELSE StripUnknown(Tail(vals), Append(cleaned, Strip(Head(vals))),
                           seen \cup {Lower(Strip(Head(vals)))})

_strip_vocab_unknown_options(voc) ==
    [voc EXCEPT !.tag_vocab =
        [group \in DOMAIN voc.tag_vocab |->
            IF group \in PROTECTED_TAG_GROUPS
            THEN StripUnknown(voc.tag_vocab[group], <<>>, {})
            ELSE voc.tag_vocab[group]]]

\* lines 234-244: the vocabulary a loaded catalog runs with
LoadedVocab(voc) ==
    LET Roles(v) == IF v.primary_roles = <<>>
                    THEN [v EXCEPT !.primary_roles = DEFAULT_PRIMARY_ROLES] ELSE v
    IN  _strip_vocab_unknown_options(_ensure_vocab_scales(Roles(
            IF DOMAIN voc.tag_vocab = {} /\ DOMAIN voc.scale_defs = {} /\ voc.scale_names = <<>>
            THEN default_vocab ELSE voc)))

\* line 245: the stored directory is not the configured one
needs_save_never(stored_raw_dir, desired_raw_dir) == FALSE

needs_save(stored_raw_dir, desired_raw_dir) == stored_raw_dir # desired_raw_dir

\* load_or_create_catalog when the catalog file exists (lines 218-258), up
\* to the save: the catalog it returns and whether it saves it
load_existing_catalog(data, desired_raw_dir, uuid0) ==
    LET Normalized(cat, voc) ==
            ensure_catalog_clusters(
                [tracks |-> List([i \in Indices(cat.tracks) |->
                                    ensure_track_scales(
                                        ensure_track_tags(
                                            _ensure_track_path_hints(cat.tracks[i]),
                                            voc.tag_vocab),
                                        voc.scale_defs)]),
                 clusters |-> cat.clusters,
                 next_uuid |-> uuid0])
        Result(cat, voc, c2) ==
            [tracks |-> c2.tracks, clusters |-> c2.clusters, next_uuid |-> c2.next_uuid,
             vocab |-> voc, aliases |-> cat.aliases,
             needs_save |-> needs_save(cat.raw_music_directory, desired_raw_dir)]
        WithVocab(cat, voc) == Result(cat, voc, Normalized(cat, voc))
        Loaded(cat) == WithVocab(cat, LoadedVocab(cat.vocab))
    IN  Loaded(model_validate(data))

\* load_or_create_catalog over a catalog file that exists (lines 217-258,
\* the save of lines 256-257 included)
open_catalog(files, uuid0) ==
    LET Existing(r) ==
            [tracks |-> r.tracks, clusters |-> r.clusters, next_uuid |-> r.next_uuid,
             vocab |-> r.vocab, aliases |-> r.aliases,
             disk |-> IF r.needs_save
                      THEN save_catalog_atomic(files, r, r.vocab, r.aliases) ELSE files,
             summary |-> ScanSummary]
    IN  Existing(load_existing_catalog(files[CATALOG_PATH].data, RAW_DIR, uuid0))

\* load_or_create_catalog(catalog_path, raw_music_dir): `files` holds the
\* catalog file, `music` the raw music directory walked in `order`, uuid0 is
\* the next value of uuid4().  The result is the catalog with the files the
\* call leaves.
load_or_create_catalog(files, music, order, uuid0) ==
    LET Created(r) ==
            [tracks |-> r.tracks, clusters |-> r.clusters, next_uuid |-> r.next_uuid,
             vocab |-> default_vocab, aliases |-> EmptyDict,
             disk |-> save_catalog_atomic(files, r, default_vocab, EmptyDict),
             summary |-> r.summary]
    IN  IF files[CATALOG_PATH] # NO_FILE
        THEN open_catalog(files, uuid0)
        ELSE Created(scan_and_sync(music, order, EmptyCatalog, default_vocab, EmptyDict, TRUE))

\* state.load() on first launch over one of the directories `dirs`
Load(dirs, budget0) ==
    \E files \in dirs :
        \E order \in Perms(iter_audio_files(files)) :
            \E r \in {load_or_create_catalog(NoFiles, files, order, 1)} :
                /\ fs = files
                /\ tracks = r.tracks
                /\ clusters = r.clusters
                /\ next_uuid = r.next_uuid
                /\ vocab = r.vocab
                /\ aliases = r.aliases
                /\ disk = r.disk
                /\ _catalog_stat = _refresh_catalog_stat(disk)
                /\ writers = <<>>
                /\ scanning = NO_SCAN
                /\ save_pc = "idle"
                /\ last_op = [NoOp EXCEPT !.summary = r.summary]
                /\ budget = budget0

\* the State singleton with the files it works on
InMemory ==
    [tracks |-> tracks, clusters |-> clusters, next_uuid |-> next_uuid,
     vocab |-> vocab, aliases |-> aliases, disk |-> disk, stat |-> _catalog_stat]

\* line 255: the catalog file is not the one last read or written
StatChanged_by_mtime(files, snapshot) ==
    files[CATALOG_PATH].mtime # snapshot[1]

StatChanged(files, snapshot) == _refresh_catalog_stat(files) # snapshot

\* State.reload_if_changed, the catalog path being configured
reload_if_changed(st) ==
    LET Reloaded(r) ==
            [tracks |-> r.tracks, clusters |-> r.clusters, next_uuid |-> r.next_uuid,
             vocab |-> r.vocab, aliases |-> r.aliases, disk |-> r.disk,
             stat |-> _refresh_catalog_stat(r.disk)]
    IN  IF st.disk[CATALOG_PATH] = NO_FILE THEN st
        ELSE IF st.stat = NO_STAT
        THEN [st EXCEPT !.stat = _refresh_catalog_stat(st.disk)]
        ELSE IF StatChanged(st.disk, st.stat)
        THEN Reloaded(open_catalog(st.disk, st.next_uuid))
        ELSE st

\* require_state(): the state a handler works on; the catalog is loaded from
\* launch on
require_state == reload_if_changed(InMemory)

\* st.catalog of a handler
CatOf(st) == [tracks |-> st.tracks, clusters |-> st.clusters, next_uuid |-> st.next_uuid]

\* the catalog in memory
Cat == CatOf(InMemory)

\* every directory over `paths` whose files have modification time 1
Directories(paths) ==
    UNION {[S -> {FileOf(c, 1) : c \in Contents}] : S \in SUBSET paths}

\* ---- file system events ------------------------------------------------

FsEvent(op, src, dst) ==
    [NoOp EXCEPT !.op = op, !.src = src, !.dst = dst, !.prev = last_op.op]

Unchanged_catalog ==
    UNCHANGED <<tracks, clusters, vocab, aliases, next_uuid, disk, _catalog_stat, writers, scanning, save_pc>>

SpendFs == budget' = [budget EXCEPT !.fs = @ - 1]

\* a file is created or overwritten
FsWrite ==
    /\ budget.fs > 0
    /\ \E p \in Paths, f \in FileVersions :
        /\ (IF p \in DOMAIN fs THEN fs[p] # f ELSE TRUE)
        /\ fs' = [q \in (DOMAIN fs) \cup {p} |-> IF q = p THEN f ELSE fs[q]]
        /\ last_op' = FsEvent("write", "", p)
    /\ SpendFs
    /\ Unchanged_catalog

\* a file is removed
FsDelete ==
    /\ budget.fs > 0
    /\ \E p \in DOMAIN fs :
        /\ fs' = [q \in (DOMAIN fs) \ {p} |-> fs[q]]
        /\ last_op' = FsEvent("delete", p, "")
    /\ SpendFs
    /\ Unchanged_catalog

\* a file is renamed or moved to a free path, content and mtime kept
FsMove ==
    /\ budget.fs > 0
    /\ \E p \in DOMAIN fs, q \in Paths \ DOMAIN fs :
        /\ fs' = [r \in ((DOMAIN fs) \ {p}) \cup {q} |-> IF r = q THEN fs[p] ELSE fs[r]]
        /\ last_op' = FsEvent("move", p, q)
    /\ SpendFs
    /\ Unchanged_catalog

\* ---- requests ------------------------------------------------------------

SpendApi == budget' = [budget EXCEPT !.api = @ - 1]

\* what a handler's response does to the State singleton and the catalog file
Apply(st, r) ==
    /\ tracks' = r.tracks
    /\ clusters' = r.clusters
    /\ next_uuid' = r.next_uuid
    /\ vocab' = st.vocab
    /\ aliases' = st.aliases
    /\ disk' = IF r.saved THEN save_catalog_atomic(st.disk, r, st.vocab, st.aliases)
               ELSE st.disk
    /\ _catalog_stat' = IF r.saved THEN _refresh_catalog_stat(disk') ELSE st.stat
    /\ UNCHANGED <<fs, save_pc, writers, scanning>>

\* POST /api/rescan; a scan that raises leaves its partial work in memory
api_rescan ==
    /\ budget.scan > 0
    /\ \E order \in Perms(iter_audio_files(fs)), st \in {require_state} :
        \E r \in {scan_and_sync(fs, order, CatOf(st), st.vocab, st.aliases, FALSE)} :
            /\ Len(r.tracks) <= MaxTracks
            /\ \E resp \in {Response(r, IF r.raised THEN 500 ELSE 200, ~r.raised, r.summary)} :
                    Apply(st, resp)
            /\ last_op' = [NoOp EXCEPT !.op = "rescan",
                                       !.status = IF r.raised THEN 500 ELSE 200,
                                       !.summary = r.summary,
                                       !.raised = r.raised,
                                       !.prev = last_op.op]
    /\ budget' = [budget EXCEPT !.scan = @ - 1]

RequestIds(known) == known \cup {UNKNOWN_ID, BAD_ID}

\* the (target, source) pairs a client sends: any two clusters of the catalog,
\* a cluster with an unknown one, and ids that do not parse
MergeRequests(known) ==
    (known \X known) \cup {<<k, UNKNOWN_ID>> : k \in known} \cup {<<BAD_ID, BAD_ID>>}

Merge ==
    /\ budget.api > 0
    /\ \E req \in MergeRequests(ClusterIds(clusters)) :
        \E target_id \in {req[1]}, source_id \in {req[2]}, st \in {require_state} :
          \E r \in {api_clusters_merge(CatOf(st), target_id, source_id)} :
            /\ Apply(st, r)
            /\ last_op' = [NoOp EXCEPT !.op = "merge", !.status = r.status,
                                       !.a = target_id, !.b = source_id,
                                       !.moved = IF r.status = 200 THEN r.body.moved ELSE 0,
                                       !.prev = last_op.op]
    /\ SpendApi

\* the (source, track_ids) pairs a client sends: a cluster of the catalog with
\* any set of asset ids or an id that does not parse, and an unknown or
\* unparseable cluster id
SplitRequests(known, ids) ==
    (known \X ((SUBSET ids) \cup {{BAD_ID}})) \cup {<<UNKNOWN_ID, {}>>, <<BAD_ID, {}>>}

Split ==
    /\ budget.api > 0
    /\ \E req \in SplitRequests(ClusterIds(clusters), TrackIds(tracks)),
          new_cluster_name \in {"", "B-side"} :
        \E source_id \in {req[1]}, chosen \in {req[2]}, st \in {require_state} :
          \E r \in {api_clusters_split(CatOf(st), source_id, chosen, new_cluster_name)} :
            /\ Apply(st, r)
            /\ last_op' = [NoOp EXCEPT !.op = "split", !.status = r.status,
                                       !.a = source_id, !.chosen = chosen,
                                       !.b = IF r.status = 200 THEN r.body.new_cluster_id ELSE NULL,
                                       !.moved = IF r.status = 200 THEN r.body.moved ELSE 0,
                                       !.prev = last_op.op]
    /\ SpendApi

\* the keys a client may send: empty, padded, one that ends in a superscript
\* digit, and the keys the catalog already holds
KeyInputs == {"", "k ", "unk_unk_unk_unk_" \o SUPERSCRIPT_TWO} \cup ExistingKeys(tracks)

\* a scales object with a value above the range of "energy" and a value for
\* a scale the vocabulary does not define
ScaleInputs(t) == {Put(Put(t.scales, "energy", 9), "loudness", 1)}

\* the bodies a client sends for track t: t with one field edited, the id of
\* another asset among the edits
Payloads(t) ==
    {[t EXCEPT !.virtual_key = k] : k \in KeyInputs \ {t.virtual_key}}
        \cup {[t EXCEPT !.cluster_id = c] : c \in (ClusterIds(clusters) \cup {NULL}) \ {t.cluster_id}}
        \cup {[t EXCEPT !.tags = Put(@, "moods", m)] :
                    m \in {<<"calm">>} \ {Get(t.tags, "moods", <<>>)}}
        \cup {[t EXCEPT !.scales = sc] : sc \in ScaleInputs(t) \ {t.scales}}
        \cup {[t EXCEPT !.track_id = id] : id \in TrackIds(tracks) \ {t.track_id}}

UpdateTrack ==
    /\ budget.api > 0
    /\ \E track_id \in RequestIds(TrackIds(tracks)), st \in {require_state} :
        \E new_track_data \in
                (IF track_id \in TrackIds(tracks)
                 THEN Payloads(tracks[IndexOfTrack(tracks, track_id)]) ELSE {NoOp}) :
            \E r \in {api_update_track(CatOf(st), track_id, new_track_data)} :
                /\ Apply(st, r)
                /\ last_op' = [NoOp EXCEPT !.op = "update", !.status = r.status,
                                           !.a = track_id,
                                           !.b = IF track_id \in TrackIds(tracks)
                                                 THEN new_track_data.track_id ELSE NULL,
                                           !.prev = last_op.op]
    /\ SpendApi

DeleteTrack ==
    /\ budget.api > 0
    /\ \E track_id \in RequestIds(TrackIds(tracks)), st \in {require_state} :
        \E r \in {api_delete_track(CatOf(st), track_id)} :
            /\ Apply(st, r)
            /\ last_op' = [NoOp EXCEPT !.op = "delete_track", !.status = r.status,
                                       !.a = track_id, !.prev = last_op.op]
    /\ SpendApi

\* ------------------------------------------------------------------------
\* The catalog under requests: a first launch over a small library, then
\* requests and rescans
\* ------------------------------------------------------------------------

\* two files of one content and a third of another
LibraryDir ==
    [p \in Paths |-> IF p = "a/y.mp3" THEN FileOf("h2", 1) ELSE FileOf("h1", 1)]

Init == Load({LibraryDir}, [fs |-> 0, scan |-> MaxRescans, api |-> MaxRequests])

Next ==
    \/ api_rescan
    \/ Merge
    \/ Split
    \/ UpdateTrack
    \/ DeleteTrack

Spec == Init /\ [][Next]_vars

\* ------------------------------------------------------------------------
\* The catalog under file system changes: a first launch over any directory,
\* then file events and rescans
\* ------------------------------------------------------------------------

InitScan ==
    Load(Directories(Paths), [fs |-> MaxFsEvents, scan |-> MaxScanRounds, api |-> 0])

NextScan ==
    \/ FsWrite
    \/ FsDelete
    \/ FsMove
    \/ api_rescan

SpecScan == InitScan /\ [][NextScan]_vars

\* ------------------------------------------------------------------------
\* The catalog file under saves: a first launch over the small library, then
\* requests whose save is followed instruction by instruction, and may fail
\* (OSError) or be cut short by the death of the process at any point
\* ------------------------------------------------------------------------

\* the responses of the handlers that end in st.save()
SavingResponses(cat) ==
    UNION {{api_delete_track(cat, id)}
              \cup {api_update_track(cat, id, body) :
                        body \in Payloads(cat.tracks[IndexOfTrack(cat.tracks, id)])} :
           id \in TrackIds(cat.tracks)}

\* a handler has changed the catalog in memory and enters save_catalog_atomic
SaveEnter ==
    /\ save_pc = "idle"
    /\ budget.api > 0
    /\ \E st \in {require_state} :
        \E r \in SavingResponses(CatOf(st)) :
            /\ r.saved
            /\ tracks' = r.tracks
            /\ clusters' = r.clusters
            /\ next_uuid' = r.next_uuid
            /\ vocab' = st.vocab
            /\ aliases' = st.aliases
            /\ disk' = st.disk
            /\ _catalog_stat' = st.stat
            /\ last_op' = [NoOp EXCEPT !.op = "save", !.status = r.status, !.prev = last_op.op]
    /\ save_pc' = "open"
    /\ SpendApi
    /\ UNCHANGED <<fs, writers, scanning>>

\* tmp_path.write_text(...): the file is opened and emptied
SaveOpen ==
    /\ save_pc = "open"
    /\ disk' = OpenForWrite(disk, tmp_path(CATALOG_PATH), Payload(Cat, vocab, aliases))
    /\ save_pc' = "write"
    /\ UNCHANGED <<fs, tracks, clusters, vocab, aliases, next_uuid, _catalog_stat, writers, scanning, last_op,
                   budget>>

\* tmp_path.write_text(...): one more piece of the text reaches the file
SaveWrite ==
    /\ save_pc = "write"
    /\ disk' = WritePiece(disk, tmp_path(CATALOG_PATH))
    /\ save_pc' = IF IsComplete(disk'[tmp_path(CATALOG_PATH)]) THEN "replace" ELSE "write"
    /\ UNCHANGED <<fs, tracks, clusters, vocab, aliases, next_uuid, _catalog_stat, writers, scanning, last_op,
                   budget>>

\* tmp_path.replace(catalog_path)
SaveReplace ==
    /\ save_pc = "replace"
    /\ disk' = replace(disk, tmp_path(CATALOG_PATH), CATALOG_PATH)
    /\ _catalog_stat' = _refresh_catalog_stat(disk')
    /\ save_pc' = "idle"
    /\ UNCHANGED <<fs, tracks, clusters, vocab, aliases, next_uuid, writers, scanning, last_op, budget>>

\* the instruction about to run raises OSError: the handler answers 500, the
\* files stay as they are and the process lives on
SaveFails_dropping_memory ==
    /\ save_pc \in {"open", "write", "replace"}
    /\ save_pc' = "idle"
    /\ last_op' = [last_op EXCEPT !.op = "save_failed", !.status = 500, !.raised = TRUE]
    /\ tracks' = disk[CATALOG_PATH].data.tracks
    /\ clusters' = disk[CATALOG_PATH].data.clusters
    /\ UNCHANGED <<fs, vocab, aliases, next_uuid, disk, _catalog_stat, writers, scanning, budget>>

SaveFails ==
    /\ save_pc \in {"open", "write", "replace"}
    /\ save_pc' = "idle"
    /\ last_op' = [last_op EXCEPT !.op = "save_failed", !.status = 500, !.raised = TRUE]
    /\ UNCHANGED <<fs, tracks, clusters, vocab, aliases, next_uuid, disk, _catalog_stat, writers, scanning,
                   budget>>

\* the process dies inside save_catalog_atomic
SaveKilled ==
    /\ save_pc \in {"open", "write", "replace"}
    /\ save_pc' = "dead"
    /\ UNCHANGED <<fs, tracks, clusters, vocab, aliases, next_uuid, disk, _catalog_stat, writers, scanning,
                   last_op, budget>>

InitSave == Load({LibraryDir}, [fs |-> 0, scan |-> 0, api |-> MaxSaves])

NextSave ==
    \/ SaveEnter
    \/ SaveOpen
    \/ SaveWrite
    \/ SaveReplace
    \/ SaveFails
    \/ SaveKilled

SpecSave == InitSave /\ [][NextSave]_vars

\* ------------------------------------------------------------------------
\* The catalog file under synchronisation: a first launch over the small
\* library, then another device's catalog replaces the file (cloud sync, git
\* pull) while requests are served, and the process may be started again
\* ------------------------------------------------------------------------

\* the replacements of the catalog file in an explored run
MaxSyncs == 1

\* the requests served in an explored run
MaxServed == 2

\* the launches after the first in an explored run
MaxRestarts == 1

\* the raw music directory of the other device
DEVICE_A_DIR == "rawA"

\* what the other device did to the catalog it shares: nothing, a new key
\* for the first asset, the last asset removed
DeviceEdits(data) ==
    {data} \cup (IF data.tracks = <<>> THEN {}
                 ELSE {[data EXCEPT !.tracks[1].virtual_key = "z"],
                       [data EXCEPT !.tracks = SubSeq(@, 1, Len(@) - 1)]})

\* the texts the other device's save_catalog_atomic may have written
SyncedTexts(data) ==
    {[e EXCEPT !.raw_music_directory = dir] :
        e \in DeviceEdits(data), dir \in {RAW_DIR, DEVICE_A_DIR}}

\* the catalog file is replaced from outside, with a later modification
\* time or with the one it had
ExternalWrite ==
    /\ budget.fs > 0
    /\ disk[CATALOG_PATH] # NO_FILE
    /\ \E data \in SyncedTexts(disk[CATALOG_PATH].data),
          mtime \in {disk[CATALOG_PATH].mtime, Later(disk)} :
        \E file \in {FileText(data, WriteChunks, mtime)} :
            /\ file # disk[CATALOG_PATH]
            /\ disk' = [disk EXCEPT ![CATALOG_PATH] = file]
            /\ last_op' = [NoOp EXCEPT !.op = "sync", !.src = data.raw_music_directory,
                                       !.prev = last_op.op]
    /\ SpendFs
    /\ UNCHANGED <<fs, tracks, clusters, vocab, aliases, next_uuid, _catalog_stat, writers, scanning, save_pc>>

\* the process is started again: state.load() at import
Restart ==
    /\ budget.scan > 0
    /\ \E order \in (IF disk[CATALOG_PATH] = NO_FILE
                      THEN Perms(iter_audio_files(fs)) ELSE {<<>>}) :
        \E r \in {load_or_create_catalog(disk, fs, order, next_uuid)} :
            /\ tracks' = r.tracks
            /\ clusters' = r.clusters
            /\ next_uuid' = r.next_uuid
            /\ vocab' = r.vocab
            /\ aliases' = r.aliases
            /\ disk' = r.disk
            /\ _catalog_stat' = _refresh_catalog_stat(disk')
            /\ last_op' = [NoOp EXCEPT !.op = "restart", !.summary = r.summary,
                                       !.src = IF disk[CATALOG_PATH] = NO_FILE THEN ""
                                               ELSE disk[CATALOG_PATH].data.raw_music_directory,
                                       !.prev = last_op.op]
    /\ save_pc' = "idle"
    /\ budget' = [budget EXCEPT !.scan = @ - 1]
    /\ UNCHANGED <<fs, writers, scanning>>

\* GET /api/track/{track_id}
api_track(cat, track_id) ==
    IF track_id = BAD_ID THEN Response(cat, 400, FALSE, "Invalid track_id")
    ELSE IF track_id \notin TrackIds(cat.tracks)
    THEN Response(cat, 404, FALSE, "Track not found")
    ELSE Response(cat, 200, FALSE, cat.tracks[IndexOfTrack(cat.tracks, track_id)])

GetTrack ==
    /\ budget.api > 0
    /\ \E track_id \in RequestIds(TrackIds(tracks)), st \in {require_state} :
        \E r \in {api_track(CatOf(st), track_id)} :
            /\ Apply(st, r)
            /\ last_op' = [NoOp EXCEPT !.op = "track", !.status = r.status, !.a = track_id,
                                       !.result = IF r.status = 200 THEN r.body.virtual_key
                                                  ELSE "",
                                       !.prev = last_op.op]
    /\ SpendApi

InitSync ==
    Load({LibraryDir}, [fs |-> MaxSyncs, scan |-> MaxRestarts, api |-> MaxServed])

NextSync ==
    \/ ExternalWrite
    \/ Restart
    \/ GetTrack
    \/ DeleteTrack

SpecSync == InitSync /\ [][NextSync]_vars

\* ------------------------------------------------------------------------
\* The first launches: a process is started over a raw music directory with
\* no catalog file, and started again over the file the first launch left
\* ------------------------------------------------------------------------

\* the launches of an explored run
MaxLaunches == 2

\* two files with one stem, a third audio file and a file that is not audio
BootPaths ==
    {"Pack1/track_01.mp3", "Pack2/nested/track_02.ogg", "Old/track_01.wav", "Pack1/cover.jpg"}

\* State.__init__: nothing is loaded yet, the catalog file does not exist
InitBoot ==
    /\ fs \in Directories(BootPaths)
    /\ tracks = <<>>
    /\ clusters = <<>>
    /\ next_uuid = 1
    /\ vocab = default_vocab
    /\ aliases = EmptyDict
    /\ disk = NoFiles
    /\ _catalog_stat = NO_STAT
    /\ writers = <<>>
    /\ scanning = NO_SCAN
    /\ save_pc = "idle"
    /\ last_op = [NoOp EXCEPT !.op = "init"]
    /\ budget = [fs |-> 0, scan |-> MaxLaunches, api |-> 0]

NextBoot == Restart

SpecBoot == InitBoot /\ [][NextBoot]_vars

\* ------------------------------------------------------------------------
\* Two processes saving to one catalog path: both loaded the catalog of the
\* small library, each handled one request, and each now runs
\* save_catalog_atomic on its own catalog; their opens, writes and renames
\* interleave freely.  A file is an inode with the pieces of text it holds,
\* and a process writes through its own descriptor at its own offset.
\* ------------------------------------------------------------------------

\* a position of a file that no write has filled since the file was emptied
HOLE == <<>>

\* json.dumps(payload): the text of `data` as the pieces write_text writes
Pieces(data) == [k \in 1..WriteChunks |-> <<data, k>>]

Inode(ino, pieces) == [ino |-> ino, pieces |-> pieces]

\* the number of a new inode
FreshIno(files, ws) ==
    LET used == {files[p].ino : p \in {q \in DOMAIN files : files[q] # NO_FILE}}
                    \cup {ws[w].fd : w \in DOMAIN ws}
    IN  1 + (CHOOSE n \in used : \A m \in used : m <= n)

\* open(path, "w"): the file is created, or emptied if it is there
OpenTruncate(files, path, ino) ==
    [files EXCEPT ![path] = IF @ = NO_FILE THEN Inode(ino, <<>>) ELSE Inode(@.ino, <<>>)]

\* the pieces of a file after a write of `piece` at position k
SetAt(pieces, k, piece) ==
    [i \in 1..Max(Len(pieces), k) |->
        IF i = k THEN piece ELSE IF i <= Len(pieces) THEN pieces[i] ELSE HOLE]

\* write(fd, piece) at offset k - 1: it reaches the inode the descriptor was
\* opened on, under whatever path that inode now is
WriteAt(files, ino, k, piece) ==
    [p \in DOMAIN files |->
        IF files[p] # NO_FILE /\ files[p].ino = ino
        THEN Inode(ino, SetAt(files[p].pieces, k, piece)) ELSE files[p]]

\* a process about to run save_catalog_atomic on the catalog with text `data`
Writer(data) == [pc |-> "open", data |-> data, fd |-> NULL, pos |-> 0]

RaceEvent(op, w, raised) ==
    [NoOp EXCEPT !.op = op, !.a = w, !.raised = raised, !.prev = last_op.op]

Unchanged_but_files ==
    UNCHANGED <<fs, tracks, clusters, vocab, aliases, next_uuid, _catalog_stat, save_pc,
                scanning, budget>>

\* tmp_path.write_text(...) of one process: open
RaceOpen ==
    \E w \in DOMAIN writers :
        /\ writers[w].pc = "open"
        /\ disk' = OpenTruncate(disk, tmp_path(CATALOG_PATH), FreshIno(disk, writers))
        /\ writers' = [writers EXCEPT ![w].pc = "write",
                                      ![w].fd = disk'[tmp_path(CATALOG_PATH)].ino]
        /\ last_op' = RaceEvent("open", w, FALSE)
        /\ Unchanged_but_files

\* tmp_path.write_text(...) of one process: the next piece of its text
RaceWrite ==
    \E w \in DOMAIN writers :
        /\ writers[w].pc = "write"
        /\ disk' = WriteAt(disk, writers[w].fd, writers[w].pos + 1,
                           <<writers[w].data, writers[w].pos + 1>>)
        /\ writers' = [writers EXCEPT ![w].pos = @ + 1,
                                      ![w].pc = IF writers[w].pos + 1 = WriteChunks
                                                THEN "replace" ELSE "write"]
        /\ last_op' = RaceEvent("write", w, FALSE)
        /\ Unchanged_but_files

\* tmp_path.replace(catalog_path) of one process; FileNotFoundError when the
\* temporary file is gone
RaceReplace ==
    \E w \in DOMAIN writers :
        /\ writers[w].pc = "replace"
        /\ IF disk[tmp_path(CATALOG_PATH)] = NO_FILE
           THEN /\ disk' = disk
                /\ writers' = [writers EXCEPT ![w].pc = "failed"]
                /\ last_op' = RaceEvent("replace", w, TRUE)
           ELSE /\ disk' = replace(disk, tmp_path(CATALOG_PATH), CATALOG_PATH)
                /\ writers' = [writers EXCEPT ![w].pc = "done"]
                /\ last_op' = RaceEvent("replace", w, FALSE)
        /\ Unchanged_but_files

\* the texts the two processes save: the catalog with one asset deleted, a
\* different asset for each
InitRace ==
    \E order \in Perms(iter_audio_files(LibraryDir)) :
        \E r \in {load_or_create_catalog(NoFiles, LibraryDir, order, 1)} :
            /\ fs = LibraryDir
            /\ tracks = r.tracks
            /\ clusters = r.clusters
            /\ next_uuid = r.next_uuid
            /\ vocab = r.vocab
            /\ aliases = r.aliases
            /\ disk = [p \in DOMAIN NoFiles |->
                        IF p = CATALOG_PATH THEN Inode(1, Pieces(Payload(r, r.vocab, r.aliases)))
                        ELSE NO_FILE]
            /\ _catalog_stat = <<1, TextSize(Payload(r, r.vocab, r.aliases))>>
            /\ save_pc = "idle"
            /\ \E a, b \in TrackIds(r.tracks) :
                    /\ a # b
                    /\ writers = <<Writer(Payload(api_delete_track(r, a), r.vocab, r.aliases)),
                                   Writer(Payload(api_delete_track(r, b), r.vocab, r.aliases))>>
            /\ last_op = [NoOp EXCEPT !.summary = r.summary]
            /\ scanning = NO_SCAN
            /\ budget = [fs |-> 0, scan |-> 0, api |-> 0]

NextRace ==
    \/ RaceOpen
    \/ RaceWrite
    \/ RaceReplace

SpecRace == InitRace /\ [][NextRace]_vars

\* ------------------------------------------------------------------------
\* The catalog under file system changes and requests together: a first
\* launch over two files of one content, then file events, a rescan and
\* requests in any order
\* ------------------------------------------------------------------------

\* the file events, the rescans and the requests of an explored run
MaxMixedFsEvents == 2

MaxMixedRescans == 1

MaxMixedRequests == 1

TwinsDir == [p \in {"a/x.mp3", "a/y.mp3"} |-> FileOf("h1", 1)]

InitMixed ==
    Load({TwinsDir}, [fs |-> MaxMixedFsEvents, scan |-> MaxMixedRescans,
                      api |-> MaxMixedRequests])

NextMixed ==
    \/ FsWrite
    \/ FsDelete
    \/ FsMove
    \/ api_rescan
    \/ Merge
    \/ Split
    \/ UpdateTrack
    \/ DeleteTrack

SpecMixed == InitMixed /\ [][NextMixed]_vars

\* ------------------------------------------------------------------------
\* The key generators and the scale clamp on their own: a catalog whose
\* assets carry chosen keys, or one asset with a chosen value under a chosen
\* scale definition, then calls that each keep what they return
\* ------------------------------------------------------------------------

\* the calls of an explored run of the functions on their own
MaxCalls == 2

\* the largest min, max and default of an explored scale definition
MaxScale == 2

\* min, max and default of a scale definition, inverted ranges included
ScaleBounds == 0..MaxScale

\* the values an asset holds for the scale, below, within and above the ranges
ScaleValues == -1..(MaxScale + 1)

\* keys in use: serials with and without padding, a serial that isdigit()
\* accepts and int() rejects, a second prefix, file names and suffixed names
KeyPool ==
    {"unk_unk_unk_unk_002", "unk_unk_unk_unk_1", "unk_unk_unk_unk_" \o SUPERSCRIPT_TWO,
     "a-b_unk_unk_unk_001", "x", "x_0"}

\* (mood, context, instrument, style) as a caller passes them
PartsInputs == {<<"", "", "", "">>, <<" A  b", "", "", "">>}

\* file name stems
StemInputs == {"x", "a b", ""}

\* an asset with key k, as scan_and_sync creates it for a file
KeyedTrack(tid, k, voc) ==
    NewTrack(tid, NULL,
             [rel_path |-> "a/x.mp3", sha1 |-> "h1", size |-> 10, mtime |-> 1,
              fmt |-> "mp3", length |-> NULL],
             k, voc, NULL)

\* the sequences of at most n distinct keys of the pool
RECURSIVE KeySeqs(_, _)
KeySeqs(pool, n) ==
    IF n = 0 THEN {<<>>}
    ELSE {<<>>} \cup UNION {{<<k>> \o q : q \in KeySeqs(pool \ {k}, n - 1)} : k \in pool}

InitFn ==
    /\ fs = EmptyDict
    /\ clusters = <<>>
    /\ aliases = EmptyDict
    /\ next_uuid = 1
    /\ disk = NoFiles
    /\ _catalog_stat = NO_STAT
    /\ writers = <<>>
    /\ scanning = NO_SCAN
    /\ save_pc = "idle"
    /\ last_op = NoOp
    /\ budget = [fs |-> 0, scan |-> 0, api |-> MaxCalls]
    /\ \/ /\ vocab = default_vocab
          /\ \E keys \in KeySeqs(KeyPool, 2) :
                tracks = [i \in 1..Len(keys) |-> KeyedTrack(i, keys[i], default_vocab)]
       \/ \E mn \in ScaleBounds, mx \in ScaleBounds, df \in ScaleBounds, v \in ScaleValues :
            /\ vocab = [default_vocab EXCEPT
                            !.scale_defs = [energy |-> ScaleDef(mn, mx, df)],
                            !.scale_defs_keys = <<"energy">>,
                            !.scale_names = <<"energy">>]
            /\ tracks = <<[KeyedTrack(1, "x", vocab) EXCEPT !.scales = [energy |-> v]]>>

Unchanged_but_tracks ==
    UNCHANGED <<fs, clusters, vocab, aliases, next_uuid, disk, _catalog_stat, writers, scanning, save_pc>>

\* generate_virtual_key_from_parts against the keys of the catalog; the key it
\* returns goes to a new asset, an exception leaves the catalog as it is
GenerateFromParts ==
    /\ budget.api > 0
    /\ \E parts \in PartsInputs :
        \E raises \in {generate_virtual_key_from_parts_raises(
                            parts[1], parts[2], parts[3], parts[4], ExistingKeys(tracks))} :
            IF raises
            THEN /\ tracks' = tracks
                 /\ last_op' = [NoOp EXCEPT !.op = "generate_virtual_key_from_parts",
                                            !.args = parts, !.raised = TRUE,
                                            !.prev = last_op.op]
            ELSE \E key \in {generate_virtual_key_from_parts(
                                parts[1], parts[2], parts[3], parts[4], ExistingKeys(tracks))} :
                 /\ tracks' = Append(tracks, KeyedTrack(Len(tracks) + 1, key, vocab))
                 /\ last_op' = [NoOp EXCEPT !.op = "generate_virtual_key_from_parts",
                                            !.args = parts, !.result = key,
                                            !.prev = last_op.op]
    /\ SpendApi
    /\ Unchanged_but_tracks

\* generate_virtual_key_from_filename against the keys of the catalog
GenerateFromFilename ==
    /\ budget.api > 0
    /\ \E stem \in StemInputs :
        \E key \in {generate_virtual_key_from_filename(stem, ExistingKeys(tracks))} :
            /\ tracks' = Append(tracks, KeyedTrack(Len(tracks) + 1, key, vocab))
            /\ last_op' = [NoOp EXCEPT !.op = "generate_virtual_key_from_filename",
                                       !.args = <<stem>>, !.result = key,
                                       !.prev = last_op.op]
    /\ SpendApi
    /\ Unchanged_but_tracks

\* for t in tracks: ensure_track_scales(t, scale_defs)
EnsureScales ==
    /\ budget.api > 0
    /\ tracks' = [i \in Indices(tracks) |-> ensure_track_scales(tracks[i], vocab.scale_defs)]
    /\ last_op' = [NoOp EXCEPT !.op = "ensure_track_scales", !.prev = last_op.op]
    /\ SpendApi
    /\ Unchanged_but_tracks

NextFn ==
    \/ GenerateFromParts
    \/ GenerateFromFilename
    \/ EnsureScales

SpecFn == InitFn /\ [][NextFn]_vars

\* ------------------------------------------------------------------------
\* The vocabulary under requests: a first launch over the small library, then
\* tag-group and tag-value requests
\* ------------------------------------------------------------------------

MaxVocabRequests == 2

VocabResponse(trks, voc, status, saved) ==
    [tracks |-> trks, vocab |-> voc, status |-> status, saved |-> saved]

\* for t in st.catalog.tracks: t.tags.setdefault(group, [])
SetDefaultGroup(trks, group) ==
    [i \in Indices(trks) |->
        [trks[i] EXCEPT !.tags = IF group \in DOMAIN @ THEN @ ELSE Put(@, group, <<>>)]]

\* [v for v in arr if str(v).lower() != target_low]
Without(arr, target_low) == SelectSeq(arr, LAMBDA v : Lower(v) # target_low)

\* POST /api/vocab/add
api_vocab_add(trks, voc, kind_raw, value_raw, group_raw) ==
    LET kind == Strip(kind_raw)
        value == Strip(value_raw)
        group == Strip(group_raw)
    IN  IF value = "" THEN VocabResponse(trks, voc, 400, FALSE)
        ELSE IF kind = "primary_role"
        THEN IF value \notin SeqToSet(voc.primary_roles)
             THEN VocabResponse(trks, [voc EXCEPT !.primary_roles = Append(@, value)], 200, TRUE)
             ELSE VocabResponse(trks, voc, 200, FALSE)
        ELSE IF kind = "tag"
        THEN IF group = "" THEN VocabResponse(trks, voc, 400, FALSE)
             ELSE LET tv == IF group \in DOMAIN voc.tag_vocab THEN voc.tag_vocab
                            ELSE Put(voc.tag_vocab, group, <<>>)
                  IN  IF value \notin SeqToSet(tv[group])
                      THEN VocabResponse(SetDefaultGroup(trks, group),
                                         [voc EXCEPT !.tag_vocab =
                                             [tv EXCEPT ![group] = Append(@, value)]],
                                         200, TRUE)
                      ELSE VocabResponse(trks, [voc EXCEPT !.tag_vocab = tv], 200, FALSE)
        ELSE VocabResponse(trks, voc, 400, FALSE)

\* POST /api/vocab/tag_group/add
api_tag_group_add(trks, voc, group_raw) ==
    LET group == Strip(group_raw)
    IN  IF group = "" THEN VocabResponse(trks, voc, 400, FALSE)
        ELSE IF group \in PROTECTED_TAG_GROUPS THEN VocabResponse(trks, voc, 400, FALSE)
        ELSE IF group \notin DOMAIN voc.tag_vocab
        THEN VocabResponse(SetDefaultGroup(trks, group),
                           [voc EXCEPT !.tag_vocab = Put(@, group, <<>>)], 200, TRUE)
        ELSE VocabResponse(trks, voc, 200, FALSE)

\* the handler without its check of PROTECTED_TAG_GROUPS
api_tag_group_delete_unprotected(trks, voc, group_raw) ==
    LET group == Strip(group_raw)
    IN  IF group = "" THEN VocabResponse(trks, voc, 400, FALSE)
        ELSE IF group \in DOMAIN voc.tag_vocab
        THEN VocabResponse([i \in Indices(trks) |-> [trks[i] EXCEPT !.tags = Pop(@, group)]],
                           [voc EXCEPT !.tag_vocab = Pop(@, group)], 200, TRUE)
        ELSE VocabResponse(trks, voc, 200, FALSE)

\* POST /api/vocab/tag_group/delete
api_tag_group_delete(trks, voc, group_raw) ==
    LET group == Strip(group_raw)
    IN  IF group = "" THEN VocabResponse(trks, voc, 400, FALSE)
        ELSE IF group \in PROTECTED_TAG_GROUPS THEN VocabResponse(trks, voc, 400, FALSE)
        ELSE IF group \in DOMAIN voc.tag_vocab
        THEN VocabResponse([i \in Indices(trks) |-> [trks[i] EXCEPT !.tags = Pop(@, group)]],
                           [voc EXCEPT !.tag_vocab = Pop(@, group)], 200, TRUE)
        ELSE VocabResponse(trks, voc, 200, FALSE)

\* POST /api/vocab/tag_value/delete; the assets are rewritten whether or not
\* anything was removed, the file only when something was
api_tag_value_delete(trks, voc, group_raw, value_raw) ==
    LET group == Strip(group_raw)
        value == Strip(value_raw)
    IN  IF group = "" \/ value = "" THEN VocabResponse(trks, voc, 400, FALSE)
        ELSE IF group \notin DOMAIN voc.tag_vocab THEN VocabResponse(trks, voc, 404, FALSE)
        ELSE LET target_low == Lower(value)
                 before == voc.tag_vocab[group]
                 after == Without(before, target_low)
                 new_tracks ==
                    [i \in Indices(trks) |->
                        [trks[i] EXCEPT !.tags =
                            Put(@, group, Without(Get(@, group, <<>>), target_low))]]
                 removed_from_vocab == Len(before) - Len(after)
                 removed_from_tracks ==
                    \E i \in Indices(trks) :
                        Len(Get(trks[i].tags, group, <<>>)) # Len(new_tracks[i].tags[group])
             IN  VocabResponse(new_tracks, [voc EXCEPT !.tag_vocab[group] = after], 200,
                               removed_from_vocab > 0 \/ removed_from_tracks)

GroupInputs ==
    {"moods", " styles ", "instruments", "usable_in_contexts", "Moods", "for_game_settings",
     "sfx", ""}

ValueInputs == {"calm", "Calm", "retro", "unknown", ""}

KindInputs == {"tag", "primary_role", "other"}

\* what a vocabulary handler's response does to the State singleton and the
\* catalog file
ApplyVocab(st, r) ==
    /\ tracks' = r.tracks
    /\ clusters' = st.clusters
    /\ next_uuid' = st.next_uuid
    /\ vocab' = r.vocab
    /\ aliases' = st.aliases
    /\ disk' = IF r.saved
               THEN save_catalog_atomic(st.disk, [CatOf(st) EXCEPT !.tracks = r.tracks],
                                        r.vocab, st.aliases)
               ELSE st.disk
    /\ _catalog_stat' = IF r.saved THEN _refresh_catalog_stat(disk') ELSE st.stat
    /\ UNCHANGED <<fs, save_pc, writers, scanning>>

VocabEvent(op, status, args) ==
    [NoOp EXCEPT !.op = op, !.status = status, !.args = args, !.prev = last_op.op]

VocabAdd ==
    /\ budget.api > 0
    /\ \E kind \in KindInputs, value \in ValueInputs, group \in GroupInputs,
          st \in {require_state} :
        \E r \in {api_vocab_add(st.tracks, st.vocab, kind, value, group)} :
            /\ ApplyVocab(st, r)
            /\ last_op' = VocabEvent("vocab_add", r.status, <<kind, value, group>>)
    /\ SpendApi

TagGroupAdd ==
    /\ budget.api > 0
    /\ \E group \in GroupInputs, st \in {require_state} :
        \E r \in {api_tag_group_add(st.tracks, st.vocab, group)} :
            /\ ApplyVocab(st, r)
            /\ last_op' = VocabEvent("tag_group_add", r.status, <<group>>)
    /\ SpendApi

TagGroupDelete ==
    /\ budget.api > 0
    /\ \E group \in GroupInputs, st \in {require_state} :
        \E r \in {api_tag_group_delete(st.tracks, st.vocab, group)} :
            /\ ApplyVocab(st, r)
            /\ last_op' = VocabEvent("tag_group_delete", r.status, <<group>>)
    /\ SpendApi

TagValueDelete ==
    /\ budget.api > 0
    /\ \E group \in GroupInputs, value \in ValueInputs, st \in {require_state} :
        \E r \in {api_tag_value_delete(st.tracks, st.vocab, group, value)} :
            /\ ApplyVocab(st, r)
            /\ last_op' = VocabEvent("tag_value_delete", r.status, <<group, value>>)
    /\ SpendApi

InitVocab == Load({LibraryDir}, [fs |-> 0, scan |-> 0, api |-> MaxVocabRequests])

NextVocab ==
    \/ VocabAdd
    \/ TagGroupAdd
    \/ TagGroupDelete
    \/ TagValueDelete

SpecVocab == InitVocab /\ [][NextVocab]_vars

\* ------------------------------------------------------------------------
\* Tag normalization as a function: an asset with raw tag values and an
\* alias table as api_alias_set builds it (lower-case key, stripped non-empty
\* replacement), then normalize_track_tags applied to the asset
\* ------------------------------------------------------------------------

MaxNormalizations == 2

TagInputs == {"calm", " Calm ", "chill", "unknown", ""}

AliasKeys == {"chill", "mellow"}

AliasTargets == {"calm", "mellow", "chill"}

\* the tables api_alias_set can leave over AliasKeys
AliasTables == UNION {[S -> AliasTargets] : S \in SUBSET AliasKeys}

\* the lists of at most two raw values
TagLists == {<<>>} \cup {<<a>> : a \in TagInputs} \cup {<<a, b>> : a, b \in TagInputs}

InitTags ==
    /\ fs = EmptyDict
    /\ clusters = <<>>
    /\ vocab = default_vocab
    /\ next_uuid = 1
    /\ disk = NoFiles
    /\ _catalog_stat = NO_STAT
    /\ writers = <<>>
    /\ scanning = NO_SCAN
    /\ save_pc = "idle"
    /\ last_op = NoOp
    /\ budget = [fs |-> 0, scan |-> 0, api |-> MaxNormalizations]
    /\ aliases \in AliasTables
    /\ \E moods \in TagLists, settings \in {<<>>, <<"unknown">>, <<"chill">>} :
        tracks = <<[KeyedTrack(1, "x", default_vocab) EXCEPT
                        !.tags = [@ EXCEPT !.moods = moods,
                                           !.for_game_settings = settings]]>>

\* for t in tracks: normalize_track_tags(t, vocab, aliases)
NormalizeTags ==
    /\ budget.api > 0
    /\ tracks' = [i \in Indices(tracks) |-> normalize_track_tags(tracks[i], vocab, aliases)]
    /\ last_op' = [NoOp EXCEPT !.op = "normalize_track_tags", !.prev = last_op.op]
    /\ SpendApi
    /\ UNCHANGED <<fs, clusters, vocab, aliases, next_uuid, disk, _catalog_stat, writers, scanning,
                   save_pc>>

NextTags == NormalizeTags

SpecTags == InitTags /\ [][NextTags]_vars

\* ------------------------------------------------------------------------
\* scan_and_sync file by file: a first launch, the library is rearranged,
\* and a rescan whose reconcile loop is followed one discovered file at a
\* time
\* ------------------------------------------------------------------------

MaxLibraryChanges == 1

MaxLoopScans == 1

\* three paths with one lower-cased (file name, parent directory name)
LoopPaths == {"a/x.mp3", "b/a/X.mp3", "c/A/x.mp3"}

LoopContents == {"h1", "h2", "h3"}

\* scan_and_sync up to its reconcile loop (lines 503-589): the loop state,
\* the discovered files and what the loop reads without changing
ScanFrame(files, order, cat, voc, ali, init_virtual_key_from_filename) ==
    LET Frame(c1, by_relpath0, backfilled) ==
            [pc |-> "loop",
             S |-> [tracks |-> List([i \in Indices(backfilled) |->
                                        [backfilled[i] EXCEPT !.missing_file = TRUE]]),
                    clusters |-> c1.clusters, next_uuid |-> c1.next_uuid,
                    track_by_relpath |-> by_relpath0,
                    canonical_by_sha1 |-> CanonicalBySha1(c1.tracks),
                    existing_keys |-> ExistingKeys(c1.tracks), used_name_relinks |-> {},
                    summary |-> ScanSummary, raised |-> FALSE],
             discovered |-> List([k \in 1..Len(order) |->
                                    Discover(files, order[k], backfilled, by_relpath0)]),
             ctx |-> [fs |-> files, vocab |-> voc, start_tracks |-> backfilled,
                      init_from_filename |-> init_virtual_key_from_filename]]
        Prepare(c1) ==
            Frame(c1, TrackByRelpath(c1.tracks),
                  List([i \in Indices(c1.tracks) |->
                          BackfillTrack(c1.tracks[i], voc, ali, TRUE)]))
    IN  Prepare(ensure_catalog_clusters(cat))

\* lines 777-787: what scan_and_sync leaves and returns after the loop
ScanFinish(S, voc, ali) ==
    LET post == List([i \in Indices(S.tracks) |-> BackfillTrack(S.tracks[i], voc, ali, FALSE)])
    IN  [tracks |-> post, clusters |-> S.clusters, next_uuid |-> S.next_uuid,
         summary |-> [S.summary EXCEPT !.missing = CountMissing(post)]]

\* the files of the library are moved, edited, added and removed while no
\* scan runs; a file that is written gets a new modification time
LibraryChange ==
    /\ budget.fs > 0
    /\ scanning = NO_SCAN
    /\ \E S \in SUBSET LoopPaths :
        \E new \in [S -> {FileOf(c, 2) : c \in LoopContents} \cup {fs[p] : p \in DOMAIN fs}] :
            /\ \A p \in S : new[p].mtime = 2 \/ (p \in DOMAIN fs /\ new[p] = fs[p])
            /\ new # fs
            /\ fs' = new
            /\ last_op' = FsEvent("library_change", "", "")
    /\ SpendFs
    /\ Unchanged_catalog

\* POST /api/rescan up to the reconcile loop of scan_and_sync
ScanEnter ==
    /\ budget.scan > 0
    /\ scanning = NO_SCAN
    /\ \E order \in Perms(iter_audio_files(fs)), st \in {require_state} :
        \E frame \in {ScanFrame(fs, order, CatOf(st), st.vocab, st.aliases, FALSE)} :
            /\ scanning' = frame
            /\ tracks' = frame.S.tracks
            /\ clusters' = frame.S.clusters
            /\ next_uuid' = frame.S.next_uuid
            /\ vocab' = st.vocab
            /\ aliases' = st.aliases
            /\ disk' = st.disk
            /\ _catalog_stat' = st.stat
            /\ last_op' = [NoOp EXCEPT !.op = "scan_enter", !.prev = last_op.op]
    /\ budget' = [budget EXCEPT !.scan = @ - 1]
    /\ UNCHANGED <<fs, save_pc, writers>>

\* one iteration of the reconcile loop
ScanStep ==
    /\ scanning.pc = "loop"
    /\ scanning.discovered # <<>>
    /\ ~scanning.S.raised
    /\ \E d \in {Head(scanning.discovered)} :
        \E S1 \in {ReconcileOne(scanning.S, d, scanning.ctx)} :
            /\ scanning' = [scanning EXCEPT !.S = S1, !.discovered = Tail(@)]
            /\ tracks' = S1.tracks
            /\ clusters' = S1.clusters
            /\ next_uuid' = S1.next_uuid
            /\ last_op' = [NoOp EXCEPT !.op = "scan_file", !.src = d.rel_path,
                                       !.result = d.sha1, !.summary = S1.summary,
                                       !.raised = S1.raised, !.prev = last_op.op]
    /\ UNCHANGED <<fs, vocab, aliases, disk, _catalog_stat, save_pc, writers, budget>>

\* the loop is over: the post-processing of scan_and_sync, then st.save() and
\* the response of api_rescan; an exception of the loop ends the request
\* where the scan stood
ScanExit ==
    /\ scanning.pc = "loop"
    /\ scanning.discovered = <<>> \/ scanning.S.raised
    /\ IF scanning.S.raised
       THEN /\ last_op' = [NoOp EXCEPT !.op = "rescan", !.status = 500, !.raised = TRUE,
                                       !.summary = scanning.S.summary, !.prev = last_op.op]
            /\ UNCHANGED <<tracks, clusters, next_uuid, disk, _catalog_stat>>
       ELSE \E r \in {ScanFinish(scanning.S, vocab, aliases)} :
            /\ tracks' = r.tracks
            /\ clusters' = r.clusters
            /\ next_uuid' = r.next_uuid
            /\ disk' = save_catalog_atomic(disk, r, vocab, aliases)
            /\ _catalog_stat' = _refresh_catalog_stat(disk')
            /\ last_op' = [NoOp EXCEPT !.op = "rescan", !.summary = r.summary,
                                       !.prev = last_op.op]
    /\ scanning' = NO_SCAN
    /\ UNCHANGED <<fs, vocab, aliases, save_pc, writers, budget>>

InitLoop ==
    Load(Directories({"a/x.mp3", "b/a/X.mp3"}),
         [fs |-> MaxLibraryChanges, scan |-> MaxLoopScans, api |-> 0])

NextLoop ==
    \/ LibraryChange
    \/ ScanEnter
    \/ ScanStep
    \/ ScanExit

SpecLoop == InitLoop /\ [][NextLoop]_vars

\* ------------------------------------------------------------------------
\* Two rounds of rearrangement and rescan, file by file, after a first launch
\* over two files of one content
\* ------------------------------------------------------------------------

MaxRoundChanges == 2

MaxRounds == 2

\* a file and its copy, with one lower-cased name and parent directory name
LoopTwins == [p \in {"a/x.mp3", "b/a/X.mp3"} |-> FileOf("h1", 1)]

InitRounds ==
    Load({LoopTwins}, [fs |-> MaxRoundChanges, scan |-> MaxRounds, api |-> 0])

NextRounds ==
    \/ LibraryChange
    \/ ScanEnter
    \/ ScanStep
    \/ ScanExit

SpecRounds == InitRounds /\ [][NextRounds]_vars

\* ------------------------------------------------------------------------
\* Properties
\* ------------------------------------------------------------------------

\* the indices of the assets whose cluster_id is cluster_id
Members(trks, cluster_id) == {i \in Indices(trks) : trks[i].cluster_id = cluster_id}

MemberIds(trks, cluster_id) == {trks[i].track_id : i \in Members(trks, cluster_id)}

\* the key up to and including its last "_", and what follows it
KeyPrefix(k) == SubSeq(k, 1, RFind(k, "_"))

KeySerial(k) == SubSeq(k, RFind(k, "_") + 1, Len(k))

RECURSIVE IsDecimal(_)
IsDecimal(s) ==
    IF s = "" THEN TRUE ELSE CharIn(Head(s), DIGIT_CHARS) /\ IsDecimal(Tail(s))

\* the in-memory catalog and the catalog file are what they were
CatalogUnchanged ==
    /\ tracks' = tracks
    /\ clusters' = clusters
    /\ vocab' = vocab
    /\ aliases' = aliases
    /\ disk' = disk

\* C1: the catalog starts with pairwise distinct virtual keys (a first launch
\* generates them so), and after any sequence of rescans, merges, splits,
\* track updates and track deletes no two assets share a virtual_key.
C1_VirtualKeysDistinct ==
    \A i, j \in Indices(tracks) :
        i # j => tracks[i].virtual_key # tracks[j].virtual_key

\* C8: a successful merge of non-empty cluster B (last_op'.b) into non-empty
\* cluster A (last_op'.a) leaves A with |A| + |B| assets, removes B from the
\* cluster list, returns moved = |B|, and leaves the keys of A's assets with
\* one common prefix and pairwise distinct decimal serial suffixes.
C8_MergeStep ==
    LET A == last_op'.a
        B == last_op'.b
        after == Members(tracks', A)
    IN  (/\ last_op'.op = "merge"
         /\ last_op'.status = 200
         /\ Members(tracks, A) # {}
         /\ Members(tracks, B) # {})
        => /\ Cardinality(after)
                = Cardinality(Members(tracks, A)) + Cardinality(Members(tracks, B))
           /\ B \notin ClusterIds(clusters')
           /\ last_op'.moved = Cardinality(Members(tracks, B))
           /\ \A i, j \in after :
                /\ KeyPrefix(tracks'[i].virtual_key) = KeyPrefix(tracks'[j].virtual_key)
                /\ KeySerial(tracks'[i].virtual_key) # ""
                /\ IsDecimal(KeySerial(tracks'[i].virtual_key))
                /\ (i # j => KeySerial(tracks'[i].virtual_key) # KeySerial(tracks'[j].virtual_key))

\* C8, of every step
C8_MergeUnifiesKeys == [][C8_MergeStep]_vars

\* C9: a merge whose target equals its source, or whose target cluster has no
\* member asset, is rejected and leaves the catalog unchanged; a merge whose
\* target has members and whose source cluster has none removes the source
\* cluster record, modifies no asset and returns moved = 0.
C9_MergeStep ==
    LET target == last_op'.a
        source == last_op'.b
    IN  last_op'.op = "merge" =>
          /\ (\/ target = source
              \/ (target \in ClusterIds(clusters) /\ Members(tracks, target) = {}))
             => (last_op'.status # 200 /\ CatalogUnchanged)
          /\ (/\ target # source
              /\ Members(tracks, target) # {}
              /\ source \in ClusterIds(clusters)
              /\ Members(tracks, source) = {})
             => /\ last_op'.status = 200
                /\ clusters' = RemoveCluster(clusters, source)
                /\ tracks' = tracks
                /\ last_op'.moved = 0

\* C9, of every step
C9_DegenerateMerges == [][C9_MergeStep]_vars

\* C10: a split succeeds only when the selection is non-empty, holds only
\* members of the source cluster and leaves a member behind; a rejected split
\* creates no cluster and changes no asset; a successful one creates exactly
\* one cluster, gives its id to exactly the selected assets, returns
\* moved = |selection| and changes no other field of any asset.
C10_SplitStep ==
    LET source == last_op'.a
        chosen == last_op'.chosen
        members == MemberIds(tracks, source)
        legal == chosen # {} /\ chosen \subseteq members /\ chosen # members
    IN  last_op'.op = "split" =>
          IF last_op'.status = 200
          THEN /\ legal
               /\ Len(clusters') = Len(clusters) + 1
               /\ SubSeq(clusters', 1, Len(clusters)) = clusters
               /\ clusters'[Len(clusters')].cluster_id \notin ClusterIds(clusters)
               /\ Len(tracks') = Len(tracks)
               /\ \A i \in Indices(tracks) :
                    tracks'[i] =
                        IF tracks[i].track_id \in chosen
                        THEN [tracks[i] EXCEPT !.cluster_id = clusters'[Len(clusters')].cluster_id]
                        ELSE tracks[i]
               /\ last_op'.moved = Cardinality(chosen)
          ELSE clusters' = clusters /\ tracks' = tracks

\* C10, of every step
C10_SplitContract == [][C10_SplitStep]_vars

\* the step is a scan that ran to completion
ScanCompletes == last_op'.op = "rescan" /\ ~last_op'.raised

\* the last thing that happened was a scan that ran to completion
AfterScan == last_op.op \in {"load", "rescan"} /\ ~last_op.raised

\* C2 as stated: a scan right after a scan, with no file system change in
\* between, returns new = updated = relinked = duplicates = missing = 0.
C2_SecondScanAllZero_Step ==
    (AfterScan /\ ScanCompletes) => last_op'.summary = ScanSummary

\* C2, of every step
C2_SecondScanAllZero == [][C2_SecondScanAllZero_Step]_vars

\* C3: when a scan that is followed by a save (the first launch or a rescan)
\* is followed by a rescan and its save, with no file system change in
\* between, the catalog file after the second equals the catalog file after
\* the first in every field but updated_at.
C3_RescanStep ==
    (AfterScan /\ ScanCompletes) => disk'[CATALOG_PATH].data = disk[CATALOG_PATH].data

\* C3, of every step
C3_RescanPersistsSame == [][C3_RescanStep]_vars

\* C7: after a scan completes, an asset has missing_file = true if and only
\* if its original_path was not among the paths observed on disk in the scan.
C7_MissingIffNotObserved ==
    AfterScan =>
        \A i \in Indices(tracks) :
            tracks[i].missing_file <=> tracks[i].original_path \notin iter_audio_files(fs)

\* C4: the file of a catalogued asset was moved from last_op.src to the
\* uncatalogued path last_op.dst, its content unchanged, nothing else changed
\* on disk since the last scan; the next scan keeps the asset's track_id and
\* virtual_key, sets its original_path to the new path, creates no asset and
\* returns relinked = 1, new = 0.
C4_RelinkStep ==
    LET src == last_op.src
        dst == last_op.dst
        owners == {i \in Indices(tracks) :
                      /\ tracks[i].original_path = src
                      /\ ~tracks[i].missing_file
                      /\ tracks[i].fingerprint.sha1 = fs[dst].sha1}
    IN  (/\ last_op.op = "move"
         /\ last_op.prev \in {"load", "rescan"}
         /\ ScanCompletes
         /\ owners # {}
         /\ \A j \in Indices(tracks) : tracks[j].original_path # dst)
        => /\ Len(tracks') = Len(tracks)
           /\ \A i \in owners :
                /\ tracks'[i].track_id = tracks[i].track_id
                /\ tracks'[i].virtual_key = tracks[i].virtual_key
                /\ tracks'[i].original_path = dst
           /\ last_op'.summary.relinked = 1
           /\ last_op'.summary.new = 0

\* C4, of every step
C4_MoveRelinks == [][C4_RelinkStep]_vars

\* the pairs of distinct paths on disk with identical content, neither of
\* which is the original_path of a catalogued asset
UncataloguedTwins ==
    {pq \in iter_audio_files(fs) \X iter_audio_files(fs) :
        /\ pq[1] # pq[2]
        /\ fs[pq[1]].sha1 = fs[pq[2]].sha1
        /\ \A i \in Indices(tracks) : tracks[i].original_path \notin {pq[1], pq[2]}}

\* after the step, exactly two assets stand for the two paths: a canonical
\* one and one whose duplicate_of is the canonical's track_id
TwinAssets(pq) ==
    LET at == {i \in Indices(tracks') : tracks'[i].original_path \in {pq[1], pq[2]}}
    IN  /\ Cardinality(at) = 2
        /\ \E c, d \in at :
            /\ c # d
            /\ tracks'[c].original_path # tracks'[d].original_path
            /\ tracks'[c].duplicate_of = NULL
            /\ tracks'[d].duplicate_of = tracks'[c].track_id

\* C5 as stated: two distinct paths with identical content, neither yet
\* catalogued: the scan produces exactly two assets for them, one canonical
\* and one duplicate of it, and reports new = 1 and duplicates = 1.
C5_TwinsStep ==
    ScanCompletes =>
        \A pq \in UncataloguedTwins :
            /\ TwinAssets(pq)
            /\ last_op'.summary.new = 1
            /\ last_op'.summary.duplicates = 1

HashUncatalogued(h) == \A i \in Indices(tracks) : tracks[i].fingerprint.sha1 # h

\* no asset whose file is gone has the lower-cased name and parent directory
\* name of this path
NoNameParentCandidate(p) ==
    MissingByNameParent(tracks, fs, NameParentKey(PathName(p), ParentDirName(p)), 1) = <<>>

\* every file on disk other than these two is catalogued at its path with the
\* content it has now
OthersUnchanged(pq) ==
    \A r \in iter_audio_files(fs) \ {pq[1], pq[2]} :
        \E i \in Indices(tracks) :
            /\ tracks[i].original_path = r
            /\ tracks[i].fingerprint.sha1 = fs[r].sha1
            /\ \A j \in Indices(tracks) :
                  tracks[j].original_path = r => tracks[j].fingerprint.sha1 = fs[r].sha1

\* C5, amended: two uncatalogued paths with identical content, whose hash no
\* catalogued asset carries, which match no missing asset by name and parent
\* directory, every other file on disk being catalogued and unchanged: the
\* scan produces exactly two assets for them, one canonical and one duplicate
\* of it, and reports new = 1 and duplicates = 1.
C5_TwinsAmendedStep ==
    ScanCompletes =>
        \A pq \in UncataloguedTwins :
            (/\ HashUncatalogued(fs[pq[1]].sha1)
             /\ NoNameParentCandidate(pq[1])
             /\ NoNameParentCandidate(pq[2])
             /\ OthersUnchanged(pq))
            => /\ TwinAssets(pq)
               /\ last_op'.summary.new = 1
               /\ last_op'.summary.duplicates = 1

C6_SaveStep ==
    \/ disk'[CATALOG_PATH] = disk[CATALOG_PATH]
    \/ /\ disk'[CATALOG_PATH].data = Payload(Cat, vocab, aliases)
       /\ IsComplete(disk'[CATALOG_PATH])

\* C6: whatever point a save has reached, and whether it then fails or the
\* process dies, the catalog file holds a complete text: the one it held when
\* the save began or the one being saved; no reader sees a partial text.
C6_SaveIsAtomic ==
    /\ [](IsComplete(disk[CATALOG_PATH]))
    /\ [][C6_SaveStep]_vars

\* the process has died with part of the new text in the temporary file and
\* the old text in the catalog file
C6_Witness ==
    /\ save_pc = "dead"
    /\ disk[tmp_path(CATALOG_PATH)] # NO_FILE
    /\ disk[tmp_path(CATALOG_PATH)].written \in 1..(WriteChunks - 1)
    /\ disk[tmp_path(CATALOG_PATH)].data # disk[CATALOG_PATH].data

\* ---- duplicates and clusters ---------------------------------------------

\* the asset with this track_id
TrackOf(trks, tid) == trks[IndexOfTrack(trks, tid)]

\* C11: every asset whose duplicate_of is set references an asset of the
\* catalog whose stored content hash equals its own
C11_DuplicateSharesHash ==
    \A i \in Indices(tracks) :
        tracks[i].duplicate_of # NULL =>
            /\ tracks[i].duplicate_of \in TrackIds(tracks)
            /\ TrackOf(tracks, tracks[i].duplicate_of).fingerprint.sha1
                    = tracks[i].fingerprint.sha1

\* C12: no asset's duplicate_of names a track_id that is absent from the
\* catalog, and the delete that has just been served left no reference to the
\* asset it removed
C12_NoDanglingDuplicateOf ==
    /\ \A i \in Indices(tracks) :
            tracks[i].duplicate_of # NULL => tracks[i].duplicate_of \in TrackIds(tracks)
    /\ (last_op.op = "delete_track" /\ last_op.status = 200) =>
            \A i \in Indices(tracks) : tracks[i].duplicate_of # last_op.a

\* the canonical asset of content "h1" was deleted right after the first
\* launch: its duplicate, created after it, is what is left of that content
C12_Witness ==
    /\ last_op.op = "delete_track"
    /\ last_op.status = 200
    /\ last_op.prev = "load"
    /\ Len(tracks) = 2
    /\ \E i \in Indices(tracks) :
            /\ tracks[i].fingerprint.sha1 = "h1"
            /\ tracks[i].track_id > last_op.a
            /\ tracks[i].duplicate_of = NULL
            /\ \A j \in Indices(tracks) \ {i} : tracks[j].fingerprint.sha1 # "h1"

\* C13: every asset's cluster_id is non-null and is the id of a cluster of the
\* catalog
C13_ClusterIdsResolve ==
    \A i \in Indices(tracks) :
        /\ tracks[i].cluster_id # NULL
        /\ tracks[i].cluster_id \in ClusterIds(clusters)

\* ---- scales --------------------------------------------------------------

\* C14: for every asset and every scale the vocabulary defines, the asset's
\* stored value lies within [min, max] of the scale's definition
C14_ScalesWithinRange ==
    \A i \in Indices(tracks) :
        \A name \in (DOMAIN vocab.scale_defs) \cap (DOMAIN tracks[i].scales) :
            /\ vocab.scale_defs[name].min <= tracks[i].scales[name]
            /\ tracks[i].scales[name] <= vocab.scale_defs[name].max

\* C15: after a load or a completed scan no asset's scales map has a key that
\* is not a scale of the vocabulary
C15_UnknownScalesDropped ==
    (last_op.op \in {"load", "rescan"} /\ ~last_op.raised) =>
        \A i \in Indices(tracks) :
            (DOMAIN tracks[i].scales) \subseteq (DOMAIN vocab.scale_defs)

\* ---- the functions on their own -------------------------------------------

C16_ClampStep ==
    (last_op'.op = "ensure_track_scales") =>
        /\ \A i \in Indices(tracks) :
             \A name \in (DOMAIN vocab.scale_defs) \cap (DOMAIN tracks[i].scales) :
                LET sdef == vocab.scale_defs[name]
                    low == Min(sdef.min, sdef.max)
                    high == Max(sdef.min, sdef.max)
                    v == tracks[i].scales[name]
                    stored == tracks'[i].scales[name]
                IN  /\ v < low => stored = low
                    /\ v > high => stored = high
                    /\ (low <= v /\ v <= high) => stored = v
        /\ (last_op.op = "ensure_track_scales") => tracks' = tracks

\* C16: under every scale definition, min and max inverted or not,
\* ensure_track_scales stores the low bound for a value below the range, the
\* high bound for a value above it and the value itself when it is in range,
\* and a second application changes nothing
C16_ClampToNearestBound == [][C16_ClampStep]_vars

\* ensure_track_scales has run twice under a definition stored with min > max
C16_Witness ==
    /\ last_op.op = "ensure_track_scales"
    /\ last_op.prev = "ensure_track_scales"
    /\ vocab.scale_defs["energy"].min > vocab.scale_defs["energy"].max
    /\ tracks[1].scales["energy"] = vocab.scale_defs["energy"].min

Generators == {"generate_virtual_key_from_parts", "generate_virtual_key_from_filename"}

C17_GenerateStep ==
    (last_op'.op \in Generators /\ ~last_op'.raised) =>
        /\ last_op'.result \notin ExistingKeys(tracks)
        /\ ExistingKeys(tracks') = ExistingKeys(tracks) \cup {last_op'.result}

\* C17: the key either generator returns is not a member of the keys in use,
\* at every call of a series in which each returned key joins the keys in use
C17_ReturnedKeyIsNew == [][C17_GenerateStep]_vars

\* the stem "x" has been asked for twice in a row while "x" and "x_0" were in
\* use
C17_Witness ==
    /\ last_op.op = "generate_virtual_key_from_filename"
    /\ last_op.prev = "generate_virtual_key_from_filename"
    /\ last_op.result = "x_2"
    /\ {"x", "x_0", "x_1"} \subseteq ExistingKeys(tracks)

C18_PartsStep ==
    (last_op'.op = "generate_virtual_key_from_parts") =>
        LET parts == last_op'.args
            prefix == _slugify_part(parts[1]) \o "_" \o _slugify_part(parts[2]) \o "_"
                        \o _slugify_part(parts[3]) \o "_" \o _slugify_part(parts[4]) \o "_"
            key == last_op'.result
            digits == SubSeq(key, Len(prefix) + 1, Len(key))
            InUse(n) ==
                \E k \in ExistingKeys(tracks) :
                    LET tail == SubSeq(k, Len(prefix) + 1, Len(k))
                    IN  StartsWith(k, prefix) /\ tail # "" /\ IsDecimal(tail) /\ IntOf(tail) = n
        IN  /\ ~last_op'.raised
            /\ StartsWith(key, prefix)
            /\ digits # ""
            /\ IsDecimal(digits)
            /\ Len(digits) >= 3
            /\ (Len(digits) > 3 => Head(digits) # "0")
            /\ IntOf(digits) >= 1
            /\ ~InUse(IntOf(digits))
            /\ \A m \in 1..(IntOf(digits) - 1) : InUse(m)

\* C18: generate_virtual_key_from_parts returns the four slugified components
\* joined and terminated by "_", followed by the smallest positive serial no
\* key in use carries under that prefix, written with at least three digits
C18_SmallestFreeSerial == [][C18_PartsStep]_vars

\* ---- the catalog file shared between devices --------------------------------

\* what a request finds when it is served: the catalog loaded from the file if
\* the file's (modification time, size) are not the snapshot, else the catalog
\* in memory
SeenByRequest ==
    IF <<disk[CATALOG_PATH].mtime, st_size(disk[CATALOG_PATH])>> # _catalog_stat
    THEN load_existing_catalog(disk[CATALOG_PATH].data, RAW_DIR, next_uuid)
    ELSE InMemory

\* the request of the step answers from, and works on, the catalog `seen`
ServedFrom(seen, deleted) ==
    /\ vocab' = seen.vocab
    /\ aliases' = seen.aliases
    /\ IF last_op'.op = "track"
       THEN /\ tracks' = seen.tracks
            /\ clusters' = seen.clusters
            /\ (last_op'.status = 200) = (last_op'.a \in TrackIds(seen.tracks))
            /\ last_op'.status = 200 =>
                    last_op'.result = TrackOf(seen.tracks, last_op'.a).virtual_key
       ELSE /\ tracks' = deleted.tracks
            /\ clusters' = deleted.clusters
            /\ last_op'.status = deleted.status

C19_ServeStep ==
    (last_op'.op \in {"track", "delete_track"} /\ budget'.api < budget.api
        /\ disk[CATALOG_PATH] # NO_FILE /\ _catalog_stat # NO_STAT) =>
        LET seen == SeenByRequest
        IN  ServedFrom(seen, api_delete_track(CatOf(seen), last_op'.a))

\* C19: a request served through require_state reads or mutates the catalog
\* loaded from the file whenever the file's (modification time, size) differ
\* from the snapshot of the last load or save, and the catalog in memory as
\* it is when they do not differ.
C19_ReloadBeforeServing == [][C19_ServeStep]_vars

\* a read that follows a replacement of the file answers with the key the
\* other device gave the asset, which the catalog in memory now holds
C19_Witness ==
    /\ last_op.op = "track"
    /\ last_op.prev = "sync"
    /\ last_op.status = 200
    /\ last_op.result = "z"
    /\ tracks # <<>>
    /\ tracks[1].virtual_key = "z"

\* the identity of an asset: its id, where its file is, what its file holds,
\* its key and its duplicate link
SameAsset(t, u) ==
    /\ t.track_id = u.track_id
    /\ t.original_path = u.original_path
    /\ t.fingerprint = u.fingerprint
    /\ t.virtual_key = u.virtual_key
    /\ t.missing_file = u.missing_file
    /\ t.duplicate_of = u.duplicate_of

SameAssets(ts, us) ==
    /\ Len(ts) = Len(us)
    /\ \A i \in Indices(ts) : SameAsset(ts[i], us[i])

C20_LoadStep ==
    (last_op'.op = "restart" /\ budget'.scan < budget.scan /\ disk[CATALOG_PATH] # NO_FILE) =>
        /\ SameAssets(tracks', disk[CATALOG_PATH].data.tracks)
        /\ IF disk[CATALOG_PATH].data.raw_music_directory # RAW_DIR
           THEN /\ IsComplete(disk'[CATALOG_PATH])
                /\ disk'[CATALOG_PATH].data.raw_music_directory = RAW_DIR
                /\ SameAssets(disk'[CATALOG_PATH].data.tracks, disk[CATALOG_PATH].data.tracks)
           ELSE disk' = disk

FilenameKey(path) == generate_virtual_key_from_filename(PathStem(path), {})

\* asset i carries the key of its file's name, or that key with a serial
\* suffix when an earlier asset already carries it
KeyFromFilename(ts, i) ==
    \/ ts[i].virtual_key = FilenameKey(ts[i].original_path)
    \/ /\ \E k \in 0..Len(ts) :
            ts[i].virtual_key = FilenameKey(ts[i].original_path) \o "_" \o StrOfNat(k)
       /\ \E j \in 1..(i - 1) : ts[j].virtual_key = FilenameKey(ts[i].original_path)

\* the catalog ts, cs has one asset and one cluster for each file of `audio`
OneAssetPerFile(ts, cs, audio) ==
    /\ Len(ts) = Cardinality(audio)
    /\ Len(cs) = Cardinality(audio)
    /\ {ts[i].original_path : i \in Indices(ts)} = audio
    /\ Cardinality({ts[i].cluster_id : i \in Indices(ts)}) = Cardinality(audio)
    /\ {ts[i].cluster_id : i \in Indices(ts)} = ClusterIds(cs)
    /\ Cardinality({ts[i].virtual_key : i \in Indices(ts)}) = Cardinality(audio)
    /\ \A i \in Indices(ts) : ~ts[i].missing_file /\ KeyFromFilename(ts, i)

C21_BootStep ==
    (last_op'.op = "restart" /\ budget'.scan < budget.scan /\ disk[CATALOG_PATH] = NO_FILE) =>
        /\ OneAssetPerFile(tracks', clusters', iter_audio_files(fs))
        /\ IsComplete(disk'[CATALOG_PATH])
        /\ disk'[CATALOG_PATH].data.tracks = tracks'
        /\ disk'[CATALOG_PATH].data.clusters = clusters'

\* C21: a launch with no catalog file over a raw music directory of n audio
\* files produces and persists a catalog of exactly n assets and n clusters,
\* each asset present (missing_file false), in a cluster of its own and
\* carrying the key derived from its file's name.
C21_FirstLaunchCataloguesEveryFile == [][C21_BootStep]_vars

\* a first launch over three audio files, two of them with one stem and two
\* of them with one content
C21_Witness ==
    /\ last_op.op = "restart"
    /\ last_op.prev = "init"
    /\ Len(tracks) = 3
    /\ {tracks[i].virtual_key : i \in Indices(tracks)} = {"track_01", "track_01_0", "track_02"}
    /\ \E i \in Indices(tracks) : tracks[i].duplicate_of # NULL
    /\ disk[CATALOG_PATH] # NO_FILE

\* ---- a save that fails ------------------------------------------------------

C22_SaveStep ==
    /\ (last_op.op = "save" /\ last_op'.op = "save_failed") =>
            /\ disk'[CATALOG_PATH] = disk[CATALOG_PATH]
            /\ <<tracks', clusters', vocab', aliases'>> = <<tracks, clusters, vocab, aliases>>
    /\ (save_pc = "replace" /\ save_pc' = "idle" /\ last_op' = last_op) =>
            /\ disk'[CATALOG_PATH].data = Payload(Cat, vocab, aliases)
            /\ <<tracks', clusters', vocab', aliases'>> = <<tracks, clusters, vocab, aliases>>

\* C22: a save whose write of the temporary file or whose rename fails
\* leaves the catalog file as it was and the catalog in memory as the handler
\* left it, and a save that completes writes the whole catalog in memory,
\* the changes of the failed saves included.
C22_FailedSaveKeepsMutation == [][C22_SaveStep]_vars

\* the save of one request failed and the save of the next completed: the
\* file holds the key the first request set and the mood the second set
C22_Witness ==
    /\ save_pc = "idle"
    /\ last_op.op = "save"
    /\ last_op.prev = "save_failed"
    /\ disk[CATALOG_PATH].data = Payload(Cat, vocab, aliases)
    /\ \E i, j \in Indices(disk[CATALOG_PATH].data.tracks) :
            /\ i # j
            /\ disk[CATALOG_PATH].data.tracks[i].virtual_key = "k "
            /\ Get(disk[CATALOG_PATH].data.tracks[j].tags, "moods", <<>>) = <<"calm">>

\* ---- two processes saving to one path -----------------------------------------

\* the file at `path` holds, whole and alone, the text of `data`
HoldsTextOf(files, path, data) ==
    /\ files[path] # NO_FILE
    /\ files[path].pieces = Pieces(data)

C23_RenameStep ==
    \A w \in DOMAIN writers :
        (writers[w].pc = "replace" /\ writers'[w].pc # "replace") =>
            HoldsTextOf(disk', CATALOG_PATH, writers[w].data)

\* C23: while two processes run save_catalog_atomic on one catalog path the
\* catalog file holds at every moment the complete text of one catalog (the
\* one both loaded, or the one of a process), and after each rename the text
\* of the process that renamed.
C23_RacingSavesStayWhole ==
    /\ [](\/ HoldsTextOf(disk, CATALOG_PATH, Payload(Cat, vocab, aliases))
          \/ \E w \in DOMAIN writers : HoldsTextOf(disk, CATALOG_PATH, writers[w].data))
    /\ [][C23_RenameStep]_vars

\* ---- rejected requests ----------------------------------------------------------

C24_RejectedStep ==
    (/\ budget'.api < budget.api
     /\ last_op'.op \in {"merge", "split", "update", "delete_track"}
     /\ last_op'.status \in {400, 404, 409}) =>
        /\ <<tracks', clusters', vocab', aliases'>> = <<tracks, clusters, vocab, aliases>>
        /\ disk' = disk

\* C24: a merge, split, track update or track delete request that is rejected
\* (an id that does not parse, an unknown asset or cluster, a key another asset
\* holds, an empty key) leaves the catalog in memory and the catalog file as
\* they were before the request.
C24_RejectedLeavesUnchanged == [][C24_RejectedStep]_vars

\* ---- the identity of an asset ---------------------------------------------------

C25_IdsStep ==
    last_op'.op \in {"rescan", "merge", "split", "update"} =>
        /\ Len(tracks') >= Len(tracks)
        /\ \A i \in Indices(tracks) : tracks'[i].track_id = tracks[i].track_id

\* C25: a scan (relinks by content hash and by name included), a merge, a
\* split and a track update leave every asset the catalog held with the
\* track_id it had; an update whose body carries another track_id stores the
\* asset under the id of the request path.
C25_TrackIdsImmutable == [][C25_IdsStep]_vars

\* an accepted update whose body carried the id of another asset, after a
\* scan that relinked an asset: both assets still have their ids
C25_Witness ==
    /\ last_op.op = "update"
    /\ last_op.status = 200
    /\ last_op.prev = "rescan"
    /\ last_op.b # NULL
    /\ last_op.b # last_op.a
    /\ {last_op.a, last_op.b} \subseteq TrackIds(tracks)
    /\ Len(tracks) = 2
    /\ \E i \in Indices(tracks) : tracks[i].original_path \notin DOMAIN TwinsDir

\* C26: the four protected tag groups are keys of the tag vocabulary at the
\* start and after every tag-group add, tag-group delete, tag-value add and
\* tag-value delete request; a tag-group delete request naming one of them
\* is answered 400 and leaves the catalog in memory and the catalog file as
\* they were.
C26_DeleteStep ==
    (last_op'.op = "tag_group_delete" /\ Strip(last_op'.args[1]) \in PROTECTED_TAG_GROUPS)
        => (last_op'.status = 400 /\ CatalogUnchanged)

C26_ProtectedGroupsKept ==
    /\ PROTECTED_TAG_GROUPS \subseteq DOMAIN vocab.tag_vocab
    /\ [][/\ PROTECTED_TAG_GROUPS \subseteq DOMAIN vocab'.tag_vocab
          /\ C26_DeleteStep]_vars

\* a delete request naming a protected group, padded with blanks, has been
\* refused after another group was deleted
C26_Witness ==
    /\ last_op.op = "tag_group_delete"
    /\ last_op.args = <<" styles ">>
    /\ last_op.status = 400
    /\ "for_game_settings" \notin DOMAIN vocab.tag_vocab

\* C27: tag normalization is idempotent: whatever the asset, the vocabulary
\* and the alias table (tables in which the replacement of one alias is the
\* key of another included), the tags normalize_track_tags leaves are left
\* as they are by a second application.
C27_NormalizeStep ==
    last_op'.op = "normalize_track_tags"
        => \A i \in Indices(tracks') :
            normalize_track_tags(tracks'[i], vocab', aliases').tags = tracks'[i].tags

C27_NormalizationIdempotent == [][C27_NormalizeStep]_vars

\* the catalog load_or_create_catalog returns for the file save_catalog_atomic
\* writes from the catalog in memory, the raw directory being the same
SavedAndLoaded == open_catalog(save_catalog_atomic(disk, Cat, vocab, aliases), next_uuid)

RoundTrips(r) ==
    /\ r.vocab = vocab
    /\ r.aliases = aliases
    /\ r.clusters = clusters
    /\ r.tracks = tracks

\* C28: whatever catalog the requests leave in memory, saving it with
\* save_catalog_atomic (which leaves out an empty alias table, default or
\* empty primary_roles and a redundant or empty scale_names) and loading the
\* file with the same raw directory gives a catalog with the same
\* vocabulary, aliases, clusters and assets.
C28_SaveLoadRoundTrip == RoundTrips(SavedAndLoaded)

\* the assets whose file is gone and whose lower-cased file name and parent
\* directory name are those of the path
MissingNamesakes(trks, files, rel_path) ==
    {i \in Indices(trks) :
        /\ trks[i].original_path # ""
        /\ trks[i].original_path \notin DOMAIN files
        /\ Strip(Lower(trks[i].raw_file_name)) # ""
        /\ NameParentKey(trks[i].raw_file_name, trks[i].raw_parent_dir_name)
            = NameParentKey(PathName(rel_path), ParentDirName(rel_path))}

\* the one namesake a file may be relinked to: the only one with no
\* duplicate_of, else the only one; the empty set when there is none
SafeNamesake(trks, files, rel_path) ==
    LET cands == MissingNamesakes(trks, files, rel_path)
        canon == {i \in cands : trks[i].duplicate_of = NULL}
    IN  IF Cardinality(canon) = 1 THEN canon
        ELSE IF Cardinality(cands) = 1 THEN cands
        ELSE {}

\* the loop takes up a file whose hash has no canonical asset and whose path
\* has no asset
UnknownFile(trks, d) ==
    /\ \A i \in Indices(trks) :
        /\ ~(trks[i].duplicate_of = NULL /\ trks[i].fingerprint.sha1 = d.sha1)
        /\ trks[i].original_path # d.rel_path

RelinkedInPlace(i, d) ==
    /\ Len(tracks') = Len(tracks)
    /\ tracks'[i].track_id = tracks[i].track_id
    /\ tracks'[i].virtual_key = tracks[i].virtual_key
    /\ tracks'[i].original_path = d.rel_path
    /\ tracks'[i].fingerprint.sha1 = d.sha1
    /\ \A j \in Indices(tracks) \ {i} : tracks'[j] = tracks[j]
    /\ scanning'.S.summary = [scanning.S.summary EXCEPT !.relinked = @ + 1]
    /\ \A h \in DOMAIN scanning'.S.canonical_by_sha1 :
        h # d.sha1 => scanning'.S.canonical_by_sha1[h] # i

CreatedNew(d) ==
    /\ Len(tracks') = Len(tracks) + 1
    /\ \A j \in Indices(tracks) : tracks'[j] = tracks[j]
    /\ tracks'[Len(tracks')].original_path = d.rel_path
    /\ tracks'[Len(tracks')].fingerprint.sha1 = d.sha1
    /\ tracks'[Len(tracks')].duplicate_of = NULL
    /\ tracks'[Len(tracks')].track_id \notin TrackIds(tracks)
    /\ scanning'.S.summary = [scanning.S.summary EXCEPT !.new = @ + 1]

C29_FileStep ==
    (last_op'.op = "scan_file" /\ UnknownFile(tracks, Head(scanning.discovered))) =>
        LET d == Head(scanning.discovered)
            safe == SafeNamesake(tracks, fs, d.rel_path)
        IN  IF safe # {}
            THEN \A i \in safe : RelinkedInPlace(i, d)
            ELSE CreatedNew(d)

\* C29: when the reconcile loop takes up a file whose hash has no canonical
\* asset and whose path has no asset, and the missing assets with its
\* lower-cased file name and parent directory name hold exactly one asset
\* without duplicate_of, or are exactly one asset, that asset is relinked in
\* place (same track_id and virtual_key, the file's path and hash, relinked
\* counted, its old hash no longer mapped to it); otherwise no asset of the
\* catalog changes and a new asset is appended (new counted).
C29_NameRelinkOrNew == [][C29_FileStep]_vars

\* the candidate pick_name_parent_candidate returns for the path: taken among
\* the assets that were missing when the scan started, an index or 0
StartCandidate(frame, rel_path) ==
    pick_name_parent_candidate(
        MissingByNameParent(frame.ctx.start_tracks, frame.ctx.fs,
                            NameParentKey(PathName(rel_path), ParentDirName(rel_path)), 1),
        frame.S.tracks)

\* the step moves asset i to the file, whose hash had no canonical asset
RelinkedByName(i, d) ==
    /\ UnknownFile(tracks, d)
    /\ tracks'[i].track_id = tracks[i].track_id
    /\ tracks'[i].original_path = d.rel_path

C30_FileStep ==
    last_op'.op = "scan_file" =>
        LET d == Head(scanning.discovered)
            cand == StartCandidate(scanning, d.rel_path)
        IN  /\ \A i \in Indices(tracks) :
                RelinkedByName(i, d) =>
                    /\ tracks[i].track_id \notin scanning.S.used_name_relinks
                    /\ tracks[i].track_id \in scanning'.S.used_name_relinks
            /\ (/\ UnknownFile(tracks, d)
                /\ cand # 0
                /\ tracks[cand].track_id \in scanning.S.used_name_relinks)
                => /\ Len(tracks') = Len(tracks) + 1
                   /\ \A j \in Indices(tracks) : tracks'[j] = tracks[j]
                   /\ tracks'[Len(tracks')].original_path = d.rel_path
                   /\ tracks'[Len(tracks')].track_id \notin TrackIds(tracks)

\* C30: within one run of scan_and_sync an asset is relinked by the name and
\* parent fallback at most once: a file is relinked to an asset only if the
\* run has not relinked that asset by name before, and a later file that
\* picks the same missing candidate leaves every asset as it is and gets a
\* new asset.
C30_RelinkedOncePerScan == [][C30_FileStep]_vars

\* a second file with the name and parent of an asset the run has already
\* relinked has got a new asset
C30_Witness ==
    /\ last_op.op = "scan_file"
    /\ last_op.summary.relinked = 1
    /\ last_op.summary.new = 1
    /\ \E i, j \in Indices(tracks) :
        /\ tracks[i].track_id \in scanning.S.used_name_relinks
        /\ j > Len(scanning.ctx.start_tracks)
        /\ tracks[j].original_path = last_op.src
        /\ NameParentKey(tracks[j].raw_file_name, tracks[j].raw_parent_dir_name)
            = NameParentKey(tracks[i].raw_file_name, tracks[i].raw_parent_dir_name)
        /\ StartCandidate(scanning, last_op.src) = i

\* the canonical asset of a hash: the first asset with that stored hash and
\* no duplicate_of; the empty set when there is none
CanonicalOf(trks, sha1) ==
    {i \in Indices(trks) :
        /\ trks[i].duplicate_of = NULL /\ trks[i].fingerprint.sha1 = sha1
        /\ \A j \in 1..(i - 1) :
            ~(trks[j].duplicate_of = NULL /\ trks[j].fingerprint.sha1 = sha1)}

AssetsAt(trks, rel_path) == {i \in Indices(trks) : trks[i].original_path = rel_path}

\* the file's hash has a canonical asset at another path whose file is on
\* disk, and the file's own path has an asset
SecondCopyOfKnownPath(trks, files, d) ==
    /\ AssetsAt(trks, d.rel_path) # {}
    /\ \E c \in CanonicalOf(trks, d.sha1) :
        /\ trks[c].original_path # d.rel_path
        /\ trks[c].original_path \in DOMAIN files

C31_FileStep ==
    (last_op'.op = "scan_file"
        /\ SecondCopyOfKnownPath(tracks, fs, Head(scanning.discovered))) =>
        LET d == Head(scanning.discovered)
            links == {e \in AssetsAt(tracks, d.rel_path) :
                        tracks[e].duplicate_of = NULL /\ e \notin CanonicalOf(tracks, d.sha1)}
        IN  /\ Len(tracks') = Len(tracks)
            /\ \A e \in AssetsAt(tracks, d.rel_path) :
                /\ tracks'[e].missing_file = FALSE
                /\ tracks'[e].duplicate_of =
                    IF e \in links
                    THEN tracks[CHOOSE c \in CanonicalOf(tracks, d.sha1) : TRUE].track_id
                    ELSE tracks[e].duplicate_of
            /\ scanning'.S.summary =
                [scanning.S.summary EXCEPT !.updated = IF links # {} THEN @ + 1 ELSE @]

\* C31: when the loop takes up a file whose hash has a canonical asset at
\* another path that is still on disk, and an asset already has the file's
\* path, no asset is created, that asset's missing_file becomes false, and its
\* duplicate_of becomes the canonical's id with one updated counted exactly
\* when it had no duplicate_of and is not the canonical itself.
C31_ExistingPathBecomesDuplicate == [][C31_FileStep]_vars

\* the assets at the scanned path whose stored hash is the content hash of
\* the file
AssetsOfFile(trks, files, rel_path) ==
    {e \in AssetsAt(trks, rel_path) : trks[e].fingerprint.sha1 = files[rel_path].sha1}

C32_FileStep ==
    last_op'.op = "scan_file" =>
        LET d == Head(scanning.discovered)
            known == AssetsOfFile(tracks, fs, d.rel_path)
            stale == {e \in known :
                        \/ tracks[e].fingerprint.file_size # d.size
                        \/ tracks[e].fingerprint.modified_time # d.mtime}
        IN  known # {} =>
                /\ Len(tracks') = Len(tracks)
                /\ \A e \in known :
                    /\ tracks'[e].missing_file = FALSE
                    /\ tracks'[e].fingerprint.file_size = d.size
                    /\ tracks'[e].fingerprint.modified_time = d.mtime
                    /\ e \notin stale => tracks'[e] = [tracks[e] EXCEPT !.missing_file = FALSE]
                /\ scanning'.S.summary =
                    [scanning.S.summary EXCEPT !.updated = IF stale # {} THEN @ + 1 ELSE @]

\* C32: when the loop takes up a file whose path has an asset with the
\* file's content hash as its stored hash, canonical or duplicate, no asset
\* is created and the asset's missing_file is cleared; if the file's size or
\* mtime differ from the stored ones they are set to the file's and one
\* updated is counted, otherwise the asset is left as it is and nothing is
\* counted.
C32_SamePathRefresh == [][C32_FileStep]_vars

\* what the claim lets a merge into `target_uuid` write on a moved asset: the
\* cluster, the shared metadata of the target's first member, and a key
MergedLike(t, target_uuid, template, vk) ==
    [t EXCEPT !.cluster_id = target_uuid,
              !.bpm = template.bpm,
              !.scales = template.scales,
              !.tags = template.tags,
              !.licensing = template.licensing,
              !.virtual_key = vk]

C33_MergeStep ==
    LET A == last_op'.a
        B == last_op'.b
        target == Members(tracks, A)
        source == Members(tracks, B)
    IN  (/\ last_op'.op = "merge"
         /\ last_op'.status = 200
         /\ target # {}
         /\ source # {})
        => LET template == tracks[CHOOSE i \in target : \A j \in target : i <= j]
           IN  /\ Len(tracks') = Len(tracks)
               /\ \A i \in Indices(tracks) :
                    IF i \in source
                    THEN tracks'[i] = MergedLike(tracks[i], A, template, tracks'[i].virtual_key)
                    ELSE IF i \in target
                    THEN tracks'[i] = [tracks[i] EXCEPT !.virtual_key = tracks'[i].virtual_key]
                    ELSE tracks'[i] = tracks[i]

\* C33: a successful merge of a non-empty cluster into a non-empty target
\* writes on each moved asset only cluster_id, bpm, scales, tags, licensing
\* (those of the target's first member) and virtual_key, on each asset that
\* was in the target only virtual_key, and leaves every other asset as it was.
C33_MergeFrame == [][C33_MergeStep]_vars

\* C34: the catalog starts with pairwise distinct original paths (a first
\* launch creates one asset per file), and after any sequence of file
\* writes, deletes, moves and rescans no two assets share an original_path.
C34_PathsDistinct ==
    \A i, j \in Indices(tracks) :
        i # j => tracks[i].original_path # tracks[j].original_path

\* the assets that stand as canonical for a content hash
CanonicalsOf(trks, sha1) ==
    {i \in Indices(trks) : trks[i].duplicate_of = NULL /\ trks[i].fingerprint.sha1 = sha1}

\* C35: after any sequence of rescans and track deletes, every content hash
\* is the stored fingerprint hash of at most one asset without duplicate_of.
C35_OneCanonicalPerHash ==
    \A i \in Indices(tracks) :
        Cardinality(CanonicalsOf(tracks, tracks[i].fingerprint.sha1)) <= 1

\* what the claim compares between two scans: the summary, and for each asset
\* id of `ids` the path, stored hash and flags of the asset after the scan
ScanOutcome(trks, summary, ids) ==
    [summary |-> summary,
     assets |-> [id \in ids |->
                    LET t == trks[IndexOfTrack(trks, id)]
                    IN  <<t.original_path, t.fingerprint.sha1, t.missing_file, t.duplicate_of>>]]

C36_ScanStep ==
    (last_op'.op = "rescan" /\ ~last_op'.raised) =>
        \E st \in {require_state} :
            \A order \in Perms(iter_audio_files(fs)) :
                \E r \in {scan_and_sync(fs, order, CatOf(st), st.vocab, st.aliases, FALSE)} :
                    ScanOutcome(r.tracks, r.summary, TrackIds(st.tracks))
                        = ScanOutcome(tracks', last_op'.summary, TrackIds(st.tracks))

\* C36: a rescan gives, under every order in which the walk may enumerate
\* the files, the summary and the per-asset path, hash, missing flag and
\* duplicate_of (over the assets the catalog held before) that it gave under
\* the order it took.
C36_WalkOrderIrrelevant == [][C36_ScanStep]_vars

\* every asset of the catalog names a cluster the catalog lists
ClustersResolved(trks, clus) ==
    \A i \in Indices(trks) : trks[i].cluster_id \in ClusterIds(clus)

C37_ScanStep ==
    (/\ last_op'.op = "rescan"
     /\ ~last_op'.raised
     /\ ClustersResolved(tracks, clusters))
    => LET grown == last_op'.summary.new + last_op'.summary.duplicates
       IN  /\ Len(tracks') = Len(tracks) + grown
           /\ Len(clusters') = Len(clusters) + grown
           /\ TrackIds(tracks) \subseteq TrackIds(tracks')
           /\ ClusterIds(clusters) \subseteq ClusterIds(clusters')

\* C37: a rescan of a catalog whose assets all name listed clusters removes
\* no asset and no cluster, and the number of assets and the number of
\* clusters each grow by exactly summary.new + summary.duplicates.
C37_ScanOnlyAdds == [][C37_ScanStep]_vars

\* a rescan that created a new asset and a duplicate, each with its cluster,
\* and kept an asset whose file is gone
C37_Witness ==
    /\ last_op.op = "rescan"
    /\ ~last_op.raised
    /\ last_op.summary.new >= 1
    /\ last_op.summary.duplicates >= 1
    /\ last_op.summary.missing >= 1
    /\ Len(clusters) = Len(tracks)

\* every cluster of the list has a member asset
NoEmptyCluster(trks, clus) ==
    \A k \in 1..Len(clus) : Members(trks, clus[k].cluster_id) # {}

C38_Step ==
    (/\ last_op'.op \in {"rescan", "merge", "split", "delete_track"}
     /\ NoEmptyCluster(tracks, clusters))
    => NoEmptyCluster(tracks', clusters')

\* C38: the catalog starts with a member asset in every cluster (a first
\* launch creates each cluster with its asset), and a rescan, merge, split or
\* track delete of a catalog in which every cluster has a member asset
\* leaves every cluster of the catalog with at least one member asset.
C38_NoEmptyCluster == [][C38_Step]_vars

====
